---- MODULE Spec2Model ----
(***************************************************************************)
(* LiveTranscribe: the segment merge engine of the Transcriber and the     *)
(* tier worker (inference.worker.js).                                      *)
(*                                                                         *)
(* Times are kept in ticks of 1/16000 s (one tick per audio sample), so    *)
(* start = processedSamples / sampleRate is the tick count                 *)
(* processedSamples and the 0.1 s overlap threshold is 1600 ticks.         *)
(***************************************************************************)
EXTENDS Integers, Sequences, FiniteSets, TLC

VARIABLES
    \* ---- Transcriber (orchestrator and merge engine) ----
    segments,        \* this.segments
    currentPartial,  \* this.currentPartial
    sinkSegments,    \* segments of the last full_transcript handed to onMessage
    sinkPartial,     \* partial of the last full_transcript handed to onMessage
    lastEmits,       \* history: number of full_transcript events of the last operation
    lastOp,          \* history: the last Transcriber operation
    lastSeg,         \* history: the argument of the last mergeSegment
    prevSegments,    \* history: this.segments before the last operation
    delivered,       \* history: [start, end, level] of every segment handed to mergeSegment
    commits,         \* history: number of commitAndReset calls
    ops,             \* history: number of Transcriber operations so far
    workerLevels,    \* the levels of this.workers (the enabled tiers)
    sent,            \* the messages the Transcriber's handlers posted to workers, in order
    \* ---- tier worker (inference.worker.js) ----
    phase,              \* "new", "configured", "loading" (initModel awaited), "fallback" (its catch awaited), "ready" (initModel returned), "failed" (it threw)
    config,             \* config: [mode, chunkSize, stepSize, level]
    audioBuffer,        \* audioBuffer: the stream samples lo .. hi - 1
    isProcessing,       \* isProcessing
    processedSamples,   \* processedSamples
    currentDraftTokens, \* currentDraftTokens
    inflight,           \* the processChunk / processContinuous calls suspended at an await
    pendingTimers,      \* setTimeout(() => checkProcessing(), 0) callbacks not yet run
    posted,             \* the messages given to self.postMessage, in order
    pushed,             \* number of samples received in audio messages
    pushSize,           \* length of the audio source's buffers
    ctl,                \* number of commit and draft_tokens messages and failed awaits so far
    lostSamples,        \* history: samples the shift dropped that were not in the chunk processed
    lastCleared,        \* history: [n, samples, tokens]: commits handled, and what the last one cleared
    lastTrim,           \* history: samples received when processContinuous last trimmed the buffer, or NoTrim
    lastText,           \* history: the text the last tokenizer.decode of a firing returned, or NoText
    initBackend,        \* the backend field of the init message the worker is sent ("" when absent)
    initQuant,          \* the quant field of that init message ("null" when null)
    backend,            \* backend
    components,         \* which of model, processor, tokenizer are not null
    loads,              \* history: the devices AutoModelForSpeechSeq2Seq.from_pretrained was called with
    loadStatus,         \* the messages initModel posted, in order: the status texts, and "load_progress"
    loadStep,           \* which await of the load under way initModel is at: 1 model, 2 processor, 3 tokenizer
    \* ---- the Transcriber's init calls and stop ----
    enabledLayers,      \* this.enabledLayers
    awaiting,           \* the init calls at await Promise.all, oldest first: the workers each made
    stopped,            \* history: stop has run and init has not been called since
    inits,              \* history: number of init calls that made workers
    \* ---- ONNX tier worker (onnx-inference worker and OnnxWhisper) ----
    onnxPhase,             \* "new" (no instance), the await handleInit is at, "ready", "failed", "warmupFailed"
    pendingConfig,         \* pendingConfig
    onnxConfig,            \* config
    onnxAudioBuffer,       \* whisperInstances[sessionKey].audioBuffer
    onnxIsProcessing,      \* whisperInstances[sessionKey].isProcessing
    onnxProcessedSamples,  \* processedSamples
    transcribing,          \* the transcribe calls suspended at an await, with their callers
    onnxPosted,            \* the messages given to self.postMessage, in order
    onnxPushed,            \* number of samples received in audio messages
    onnxCtl,               \* number of commit messages and failed awaits so far
    \* ---- the cascade: Transcriber and two tier workers ----
    peer,               \* the state of the tier worker that is not the one running
    fed,                \* number of samples Transcriber.process has broadcast
    handled,            \* per level: how many of the worker's posted messages the Transcriber has handled
    taken,              \* per level: how many of the messages sent to the worker it has handled
    commitFed,          \* for each commitAndReset so far: the samples process had broadcast before it
    \* ---- the Transcriber's workers: creation, errors, restarts ----
    isInitialized,      \* this.isInitialized
    initPc,             \* init(): "idle" (not called), "awaiting" (at await Promise.all), "done"
    workers,            \* this.workers: the Worker objects, as indices into pool
    pool,               \* every Worker object constructed so far
    workerConfigs,      \* this.workerConfigs
    statuses,           \* the status events given to onMessage, in order
    errors,             \* history: number of worker error events so far
    \* ---- the Transcriber's timing statistics ----
    timingStats,        \* this.timingStats
    timed,              \* history: per level, the non-zero inferenceTimes received since the last commitAndReset or stop
    \* ---- the streaming worker's message queue ----
    isHandlingMessage,  \* let isHandlingMessage
    messageQueue,       \* let messageQueue
    running,            \* the onmessage calls suspended at the await of their handler
    streamPosted,       \* the statuses given to self.postMessage, in order
    started,            \* history: the messages whose handling began, in order
    finished,           \* history: the messages whose handling ended, in order
    arrivals,           \* history: number of message events delivered so far
    wasQueued,          \* history: how many messages were pushed to messageQueue
    pipeline,           \* how many of WhisperPipeline.tokenizer, processor, model are set
    newAudio,           \* WhisperPipeline.audioBuffer.length - lastProcessedLength
    \* ---- segments of several tiers arriving in any order ----
    emitted,            \* the segments the tiers emit
    todo,               \* those that have not reached the Transcriber yet
    \* ---- one call of a function of the worker, on its own ----
    call                \* the function, its arguments, and its result once it has run

mergeVars == <<segments, currentPartial, sinkSegments, sinkPartial, lastEmits, lastOp,
               lastSeg, prevSegments, delivered, commits, ops, workerLevels, sent>>

workerVars == <<phase, config, audioBuffer, isProcessing, processedSamples,
                currentDraftTokens, inflight, pendingTimers, posted, pushed,
                pushSize, ctl, lostSamples, lastCleared, lastTrim, lastText>>

loadVars == <<initBackend, initQuant, backend, components, loads, loadStatus,
             loadStep>>

onnxVars == <<onnxPhase, pendingConfig, onnxConfig, onnxAudioBuffer, onnxIsProcessing,
              onnxProcessedSamples, transcribing, onnxPosted, onnxPushed, onnxCtl>>

cascadeVars == <<peer, fed, handled, taken, commitFed>>

lifeVars == <<isInitialized, initPc, workers, pool, workerConfigs, statuses, errors>>

orderVars == <<emitted, todo>>

fnVars == <<call>>

\* What the worker's handlers leave alone, and what the Transcriber's do.
stopVars == <<enabledLayers, awaiting, stopped, inits>>

statsVars == <<timingStats, timed>>

streamVars == <<isHandlingMessage, messageQueue, running, streamPosted, started, finished,
                arrivals, wasQueued, pipeline, newAudio>>

extraVars == <<loadVars, onnxVars, stopVars, statsVars, streamVars>>
nonLoadVars == <<mergeVars, cascadeVars, lifeVars, orderVars, fnVars, onnxVars, stopVars,
                 statsVars, streamVars>>
nonOnnxVars == <<mergeVars, workerVars, cascadeVars, lifeVars, orderVars, fnVars, loadVars,
                 stopVars, statsVars, streamVars>>
nonStatsVars == <<workerVars, cascadeVars, lifeVars, orderVars, fnVars, loadVars, onnxVars,
                  stopVars, streamVars>>
nonStreamVars == <<mergeVars, workerVars, cascadeVars, lifeVars, orderVars, fnVars, loadVars,
                   onnxVars, stopVars, statsVars>>
nonWorkerVars == <<mergeVars, cascadeVars, lifeVars, orderVars, fnVars, extraVars>>
nonMergeVars == <<workerVars, cascadeVars, lifeVars, orderVars, fnVars, extraVars>>

vars == <<mergeVars, workerVars, cascadeVars, lifeVars, orderVars, fnVars, extraVars>>

-----------------------------------------------------------------------------
(* Bounds *)

\* Number of Transcriber operations explored.
MaxOps == 5
\* Length of the session's time grid, in L2 chunks (4 chunks = 20 s).
MaxL2Chunks == 4
\* Audio a worker receives, in chunks of its configured chunkSize.
MaxChunks == 2
\* Audio messages a worker receives.
MaxPushes == 4
\* Length of the token arrays the draft-token functions are applied to.
MaxTokens == 3
\* Commit and draft_tokens messages and failed awaits of one worker.
MaxCtl == 2
\* Audio messages of 0.1 s given to the continuous tier on its own.
MaxSteadyPushes == 14
\* Worker error events of one session.
MaxErrors == 2
\* Tiers enabled in one session of the Transcriber with its workers' life.
MaxEnabled == 2
\* commitAndReset calls while the cascade runs.
MaxCascadeCommits == 1

\* The latest moment, in seconds of audio fed, of a commit in the cascade.
MaxCommitSeconds == 2
\* init calls that get past the isInitialized check.
MaxInits == 2
\* worker outputs and commits handled while the worker list changes
MaxOutputs == 2
\* worker errors while outputs are handled
MaxStatsErrors == 1
\* message events delivered to the streaming worker
MaxMessages == 3
\* load_progress messages of one load
MaxProgress == 1
\* texts the streamer passes on during one model.generate
MaxUpdates == 1

-----------------------------------------------------------------------------
(* Program constants *)

sampleRate == 16000

\* 0.1 s, the threshold of "overlap > 0.1", in ticks.
OverlapThreshold == sampleRate \div 10

\* allConfigs of Transcriber.init: the chunk size (s) of the chunk tiers.
chunkSize(level) ==
    CASE level = 2 -> 5
      [] level = 3 -> 10
      [] level = 4 -> 20
      [] OTHER -> 5

mode(level) == IF level = 1 THEN "continuous" ELSE "chunk"

ChunkLevels == {2, 3, 4}

\* chunkSamples = Math.floor(config.chunkSize * sampleRate)
chunkSamples(level) == chunkSize(level) * sampleRate

Texts == {"a", "b"}

\* seq without its i-th element
RemoveAt(seq, i) == SubSeq(seq, 1, i - 1) \o SubSeq(seq, i + 1, Len(seq))

Max(a, b) == IF a >= b THEN a ELSE b
Min(a, b) == IF a <= b THEN a ELSE b

-----------------------------------------------------------------------------
(* Segments *)

\* The segment message a chunk tier posts for its k-th chunk (k from 0).
SegmentMsg(level, k, text) ==
    [start |-> k * chunkSamples(level),
     end |-> k * chunkSamples(level) + chunkSamples(level),
     text |-> text, level |-> level, isSeparator |-> FALSE]

\* The separator pushed by commitAndReset.
Separator(at) ==
    [start |-> at, end |-> at, text |-> "---", level |-> 0, isSeparator |-> TRUE]

\* Chunk indices of a tier on the session's time grid.
ChunkIndices(level) ==
    0 .. ((MaxL2Chunks * chunkSamples(2)) \div chunkSamples(level)) - 1

\* overlap = Math.min(s.end, n.end) - Math.max(s.start, n.start)
overlap(s, n) == Min(s.end, n.end) - Max(s.start, n.start)

\* Mutant of KeepOnMerge: an equal-level overlapping segment is kept (>= for >).
KeepOnMergeTieKeeps(s, n) ==
    IF s.isSeparator THEN TRUE
    ELSE IF overlap(s, n) > OverlapThreshold
         THEN (IF s.level >= n.level THEN TRUE ELSE FALSE)
         ELSE TRUE

\* Mutant of KeepOnMerge: the separator test is inverted, separators are dropped.
KeepOnMergeDropsSeparators(s, n) ==
    IF s.isSeparator THEN FALSE
    ELSE IF overlap(s, n) > OverlapThreshold
         THEN (IF s.level > n.level THEN TRUE ELSE FALSE)
         ELSE TRUE

\* Mutant of KeepOnMerge: the weaker overlapping segment is kept too.
KeepOnMergeNeverDrops(s, n) ==
    IF s.isSeparator THEN TRUE
    ELSE IF overlap(s, n) > OverlapThreshold
         THEN (IF s.level > n.level THEN TRUE ELSE TRUE)
         ELSE TRUE

\* Mutant of KeepOnMerge: a segment of lower or equal level is dropped
\* wherever it lies.
KeepOnMergeIgnoresOverlap(s, n) ==
    IF s.isSeparator THEN TRUE
    ELSE IF s.level > n.level THEN TRUE ELSE FALSE

\* The filter callback of mergeSegment: TRUE keeps s.
KeepOnMerge(s, n) ==
    IF s.isSeparator THEN TRUE
    ELSE IF overlap(s, n) > OverlapThreshold
         THEN (IF s.level > n.level THEN TRUE ELSE FALSE)
         ELSE TRUE

\* Mutant of CoversBetter: the level comparison is reversed.
CoversBetterReversed(s, n) ==
    IF s.isSeparator THEN FALSE
    ELSE overlap(s, n) > OverlapThreshold /\ s.level < n.level

\* Mutant of CoversBetter: a new segment is never rejected.
CoversBetterNever(s, n) == FALSE

\* The some callback of mergeSegment.
CoversBetter(s, n) ==
    IF s.isSeparator THEN FALSE
    ELSE overlap(s, n) > OverlapThreshold /\ s.level > n.level

coveredByBetter(segs, n) ==
    \E i \in 1 .. Len(segs) : CoversBetter(segs[i], n)

\* Array.prototype.sort((a, b) => a.start - b.start): a stable sort by start.
RECURSIVE InsertByStart(_, _)
InsertByStart(sorted, x) ==
    IF sorted = <<>> THEN <<x>>
    ELSE IF sorted[Len(sorted)].start <= x.start THEN Append(sorted, x)
    ELSE Append(InsertByStart(SubSeq(sorted, 1, Len(sorted) - 1), x),
                sorted[Len(sorted)])

RECURSIVE SortByStart(_)
SortByStart(seq) ==
    IF seq = <<>> THEN <<>>
    ELSE InsertByStart(SortByStart(SubSeq(seq, 1, Len(seq) - 1)), seq[Len(seq)])

\* Mutant of mergeSegment: the sort after the push is left out.
mergeSegmentNoSort(segs, n) ==
    LET filtered == SelectSeq(segs, LAMBDA s : KeepOnMerge(s, n))
    IN  IF ~coveredByBetter(filtered, n)
        THEN Append(filtered, n)
        ELSE filtered

\* Mutant of mergeSegment: the overlapping segments are not filtered out.
mergeSegmentNoFilter(segs, n) ==
    IF ~coveredByBetter(segs, n)
    THEN SortByStart(Append(segs, n))
    ELSE segs

\* this.segments after mergeSegment(n).
mergeSegment(segs, n) ==
    LET filtered == SelectSeq(segs, LAMBDA s : KeepOnMerge(s, n))
    IN  IF ~coveredByBetter(filtered, n)
        THEN SortByStart(Append(filtered, n))
        ELSE filtered

\* Mutant of mergeEmits: mergeSegment never reaches emitUpdate.
mergeEmitsNever(segs, n) == FALSE

\* Whether mergeSegment(n) reaches emitUpdate.
mergeEmits(segs, n) ==
    ~coveredByBetter(SelectSeq(segs, LAMBDA s : KeepOnMerge(s, n)), n)

\* Mutant of commitSegments: the separator is pinned at the last start.
commitSegmentsAtStart(segs) ==
    IF Len(segs) > 0
    THEN Append(segs, Separator(segs[Len(segs)].start))
    ELSE segs

\* this.segments after commitAndReset.
commitSegments(segs) ==
    IF Len(segs) > 0
    THEN Append(segs, Separator(segs[Len(segs)].end))
    ELSE segs

Shape(s) == [start |-> s.start, end |-> s.end, level |-> s.level]

-----------------------------------------------------------------------------
(* Transcriber actions *)

NoSeg == [start |-> 0, end |-> 0, text |-> "", level |-> 0, isSeparator |-> FALSE]

\* The four tiers of allConfigs.
Tiers == {1, 2, 3, 4}

\* One tier's entry of this.timingStats as initializeTimingStats makes it;
\* averageTime and hitRate are quotients, kept as fractions. No specStats yet.
NoTiming ==
    [totalTime |-> 0, count |-> 0, lastTime |-> 0,
     averageTime |-> [num |-> 0, den |-> 1],
     specStats |-> [present |-> FALSE, totalHits |-> 0, totalDrafts |-> 0,
                    hitRate |-> [num |-> 0, den |-> 1]]]

\* initializeTimingStats(), with this.enabledLayers = layers
initializeTimingStats(layers) == [level \in layers |-> NoTiming]

\* No output has been received.
NoTimed == [level \in Tiers |-> <<>>]

\* if (data.inferenceTime) { stats.totalTime += ...; stats.count += 1; ... }
timeAdded(stats, t) ==
    IF t # 0
    THEN [stats EXCEPT !.totalTime = @ + t,
                       !.count = @ + 1,
                       !.lastTime = t,
                       !.averageTime = [num |-> stats.totalTime + t,
                                        den |-> stats.count + 1]]
    ELSE stats

\* if (data.specStats) { ... }: s is the message's specStats
specStatsAdded(stats, s) ==
    IF s.present
    THEN LET hits == stats.specStats.totalHits + s.verifiedCount
             drafts == stats.specStats.totalDrafts + s.totalCount
         IN  [stats EXCEPT !.specStats =
                 [present |-> TRUE, totalHits |-> hits, totalDrafts |-> drafts,
                  hitRate |-> IF drafts > 0 THEN [num |-> hits, den |-> drafts]
                              ELSE [num |-> 0, den |-> 1]]]
    ELSE stats

\* const stats = this.timingStats[level]; stats.totalTime ... : a TypeError
\* when the level has no entry and the message carries a time or specStats
statsThrows(ts, level, t, s) == level \notin DOMAIN ts /\ (t # 0 \/ s.present)

MergeInit ==
    /\ segments = <<>>
    /\ currentPartial = ""
    /\ sinkSegments = <<>>
    /\ sinkPartial = ""
    /\ lastEmits = 0
    /\ lastOp = "init"
    /\ lastSeg = NoSeg
    /\ prevSegments = <<>>
    /\ delivered = {}
    /\ commits = 0
    /\ ops = 0

\* workers enabled by init(..., enabledLayers, ...); nothing posted yet
OrchInit(levels) ==
    /\ workerLevels = levels
    /\ sent = <<>>

\* tokens: generatedTokens[0].tolist() of a worker's output
OutputTokens == <<50258, 1>>

\* nextWorker.postMessage({type: "draft_tokens", tokens})
DraftTokensMsg(to, tokens) == [to |-> to, type |-> "draft_tokens", tokens |-> tokens]

\* w.postMessage({type: "commit"})
CommitMsg(to) == [to |-> to, type |-> "commit", tokens |-> <<>>]

\* Mutant of forwardSegmentTokens: every tier's tokens go to the next tier.
forwardSegmentTokensEveryHop(level, hasTokens, tokens, levels) ==
    IF hasTokens /\ level # 0 /\ (level + 1) \in levels
    THEN <<DraftTokensMsg(level + 1, tokens)>>
    ELSE <<>>

\* handleWorkerMessage, segment: what is posted for the segment's tokens.
\* "Only forward tokens from L1 to L2"
forwardSegmentTokens(level, hasTokens, tokens, levels) ==
    IF hasTokens /\ level # 0 /\ level + 1 = 2 /\ (level + 1) \in levels
    THEN <<DraftTokensMsg(level + 1, tokens)>>
    ELSE <<>>

\* handleWorkerMessage, partial: what is posted for the partial's tokens
forwardPartialTokens(hasTokens, tokens, levels) ==
    IF hasTokens /\ 2 \in levels
    THEN <<DraftTokensMsg(2, tokens)>>
    ELSE <<>>

\* this.workers.forEach((w) => w.postMessage({ type: "commit" }))
\* ws is this.workers, as indices into the Worker objects p
commitBroadcast(ws, p) == [k \in 1 .. Len(ws) |-> CommitMsg(p[ws[k]].level)]

\* handleWorkerMessage(n) for a segment message n carrying tokens:
\* the tokens are forwarded, then mergeSegment -> emitUpdate
SegmentHandled(n) ==
    /\ sent' = sent \o forwardSegmentTokens(n.level, TRUE, OutputTokens, workerLevels)
    /\ segments' = mergeSegment(segments, n)
    /\ lastSeg' = n
    /\ delivered' = delivered \cup {Shape(n)}
    /\ IF mergeEmits(segments, n)
       THEN /\ sinkSegments' = segments'
            /\ sinkPartial' = currentPartial
            /\ lastEmits' = 1
       ELSE /\ UNCHANGED <<sinkSegments, sinkPartial>>
            /\ lastEmits' = 0
    /\ prevSegments' = segments
    /\ lastOp' = "merge"
    /\ ops' = ops + 1
    /\ UNCHANGED <<currentPartial, commits, workerLevels>>

\* handleWorkerMessage(n) for a segment message of the environment
HandleSegmentMsg(n) == SegmentHandled(n) /\ UNCHANGED nonMergeVars

\* handleWorkerMessage({type: "segment", ...}) for the segments of the chunk tiers
HandleSegment ==
    /\ ops < MaxOps
    /\ \E level \in ChunkLevels, text \in Texts :
         \E k \in ChunkIndices(level) : HandleSegmentMsg(SegmentMsg(level, k, text))

\* handleWorkerMessage({type: "segment", ...}) for the first segment of an
\* enabled chunk tier
HandleFirstSegment ==
    /\ ops < MaxOps
    /\ \E level \in ChunkLevels \cap workerLevels :
          HandleSegmentMsg(SegmentMsg(level, 0, "a"))

\* handleWorkerMessage({type: "partial", text, tokens}) for a partial
\* carrying tokens: with a non-empty text the tokens are forwarded to L2,
\* currentPartial is set, emitUpdate
PartialHandled(text) ==
    /\ text # ""
    /\ currentPartial' = text
    /\ sent' = sent \o forwardPartialTokens(TRUE, OutputTokens, workerLevels)
    /\ sinkSegments' = segments
    /\ sinkPartial' = currentPartial'
    /\ lastEmits' = 1
    /\ prevSegments' = segments
    /\ lastOp' = "partial"
    /\ ops' = ops + 1
    /\ UNCHANGED <<segments, lastSeg, delivered, commits, workerLevels>>

\* handleWorkerMessage({type: "partial", ...}) for a partial of the continuous
\* tier (a worker posts it only with a non-empty text)
HandlePartial ==
    /\ ops < MaxOps
    /\ 1 \in workerLevels
    /\ \E text \in Texts : PartialHandled(text)
    /\ UNCHANGED nonMergeVars

\* commitAndReset: the commit broadcast, the separator, the partial cleared,
\* emitUpdate
CommitDone ==
    /\ segments' = commitSegments(segments)
    /\ currentPartial' = ""
    /\ sinkSegments' = segments'
    /\ sinkPartial' = currentPartial'
    /\ lastEmits' = 1
    /\ prevSegments' = segments
    /\ lastOp' = "commit"
    /\ commits' = commits + 1
    /\ ops' = ops + 1
    /\ sent' = sent \o commitBroadcast(workers, pool)
    /\ timingStats' = initializeTimingStats(enabledLayers)
    /\ timed' = NoTimed
    /\ UNCHANGED <<lastSeg, delivered, workerLevels>>

\* commitAndReset
CommitAndReset ==
    /\ ops < MaxOps
    /\ CommitDone
    /\ UNCHANGED nonStatsVars

-----------------------------------------------------------------------------
(* Tier worker: buffers *)

\* A Float32Array of consecutive stream samples lo .. hi - 1; the empty array
\* is EmptyBuffer.
EmptyBuffer == [lo |-> 0, hi |-> 0]

BufLen(b) == b.hi - b.lo

\* new Float32Array(a.length + d.length) holding a, then d
Concat(a, d) ==
    IF BufLen(d) = 0 THEN a
    ELSE IF BufLen(a) = 0 THEN d
    ELSE [lo |-> a.lo, hi |-> a.hi + BufLen(d)]

\* b.slice(0, n)
SliceHead(b, n) ==
    IF BufLen(b) = 0 \/ n <= 0 THEN EmptyBuffer
    ELSE [lo |-> b.lo, hi |-> Min(b.hi, b.lo + n)]

\* b.slice(n)
SliceFrom(b, n) ==
    IF n >= BufLen(b) THEN EmptyBuffer
    ELSE [lo |-> b.lo + Max(n, 0), hi |-> b.hi]

\* Number of samples of a that are not in b.
Outside(a, b) ==
    BufLen(a) - Max(0, Min(a.hi, b.hi) - Max(a.lo, b.lo))

\* The audio source's buffer sizes: pushes of 0.5 s, of 3 s and of 5 s.
PushSizes == {sampleRate \div 2, 3 * sampleRate, 5 * sampleRate}

-----------------------------------------------------------------------------
(* Tier worker: configuration and draft tokens *)

\* let config = { mode: "legacy", chunkSize: 5, stepSize: 1, level: 0 }
DefaultConfig == [mode |-> "legacy", chunkSize |-> 5, stepSize |-> 1, level |-> 0]

\* { ...config, ...allConfigs[level] }
ConfigFor(level) ==
    IF mode(level) = "continuous"
    THEN [DefaultConfig EXCEPT !.mode = "continuous", !.stepSize = 1, !.level = level]
    ELSE [DefaultConfig EXCEPT !.mode = "chunk", !.chunkSize = chunkSize(level),
                               !.level = level]

Levels == {1, 2, 3, 4}

\* Draft token arrays a draft_tokens message may carry.
DraftInputs ==
    { <<>>,
      <<50258, 50259, 50359, 50363, 1, 2>>,
      <<50258, 50259, 50359, 50363, 3>> }

\* Mutant of StripIndex: timestamp tokens are stripped with the header.
RECURSIVE StripIndexTimestampsToo(_, _)
StripIndexTimestampsToo(tokens, startIndex) ==
    IF startIndex < Len(tokens) /\ tokens[startIndex + 1] >= 50257
    THEN StripIndexTimestampsToo(tokens, startIndex + 1)
    ELSE startIndex

\* The header-stripping loop: index (from 0) of the first token kept.
RECURSIVE StripIndex(_, _)
StripIndex(tokens, startIndex) ==
    IF startIndex < Len(tokens) /\ tokens[startIndex + 1] >= 50257
    THEN IF tokens[startIndex + 1] >= 50364
         THEN startIndex
         ELSE StripIndex(tokens, startIndex + 1)
    ELSE startIndex

\* currentDraftTokens after a draft_tokens message.
setDraftTokens(level, current, tokens) ==
    IF Len(tokens) > 0
    THEN IF level = 2
         THEN tokens
         ELSE IF Len(current) > 0
              THEN current \o SubSeq(tokens, StripIndex(tokens, 0) + 1, Len(tokens))
              ELSE current \o tokens
    ELSE current

\* Mutant of commitProcessedSamples: the commit resets the timestamp origin.
commitProcessedSamplesReset(p) == 0

\* Mutant of commitDraftTokens: the commit leaves the draft tokens alone.
commitDraftTokensKept(d) == d

\* What the commit handler leaves in currentDraftTokens
\* ("Clear draft tokens on commit").
commitDraftTokens(d) == <<>>

\* What the commit handler leaves in processedSamples
\* ("Don't reset processedSamples - keep timestamp continuity").
commitProcessedSamples(p) == p

-----------------------------------------------------------------------------
(* Tier worker: checkProcessing and the inference calls *)

\* Mutant of checkProcessing: the isProcessing guard is left out.
checkProcessingNoGuard(processing, ph, cfg, buf) ==
    IF ph # "ready" THEN "none"
    ELSE IF cfg.mode = "continuous"
         THEN (IF BufLen(buf) >= sampleRate * cfg.stepSize THEN "continuous" ELSE "none")
    ELSE IF cfg.mode = "chunk"
         THEN (IF BufLen(buf) >= sampleRate * cfg.chunkSize THEN "chunk" ELSE "none")
    ELSE "none"

\* checkProcessing: which inference call it makes, if any.
checkProcessing(processing, ph, cfg, buf) ==
    IF processing \/ ph # "ready" THEN "none"
    ELSE IF cfg.mode = "continuous"
         THEN (IF BufLen(buf) >= sampleRate * cfg.stepSize THEN "continuous" ELSE "none")
    ELSE IF cfg.mode = "chunk"
         THEN (IF BufLen(buf) >= sampleRate * cfg.chunkSize THEN "chunk" ELSE "none")
    ELSE "none"

\* processContinuous: const maxSamples = 16000 * 3
maxSamples == sampleRate * 3
\* processContinuous: const contextSamples = 16000 * 1
contextSamples == sampleRate * 1

\* Mutant of trimContinuous: nothing is kept for context.
trimContinuousAll(buf) == EmptyBuffer

\* processContinuous: the buffer is trimmed to its last contextSamples
trimContinuous(buf) ==
    IF BufLen(buf) > contextSamples
    THEN SliceFrom(buf, BufLen(buf) - contextSamples)
    ELSE buf

\* The buffer has not been trimmed yet.
NoTrim == -1

\* No firing has decoded a text yet.
NoText == "no text"

\* let specStats = null
NoStats == [verifiedCount |-> 0, totalCount |-> 0,
            hitRate |-> [num |-> 0, den |-> 1], present |-> FALSE]

\* currentDraftTokens[0] of an empty array: undefined
Undefined == -1

\* Mutant of useDraftTokens: the check for a non-empty draft is left out.
useDraftTokensEmptyToo(draft, cfg) == cfg.level > 1

\* processChunk: currentDraftTokens && currentDraftTokens.length > 0 && config.level > 1
useDraftTokens(draft, cfg) == Len(draft) > 0 /\ cfg.level > 1

\* Mutant of VerifyMatches: the loop goes on after a mismatch.
RECURSIVE VerifyMatchesNoBreak(_, _, _)
VerifyMatchesNoBreak(draftTokens, pred, i) ==
    IF i < Len(pred) - 1 /\ i + 2 <= Len(draftTokens)
    THEN VerifyMatchesNoBreak(draftTokens, pred, i + 1)
            + (IF pred[i + 1] = draftTokens[i + 2] THEN 1 ELSE 0)
    ELSE 0

\* verifyDraftTokens, the comparison loop: the number of matches when it
\* ends. pred[i + 1] is the argmax of logits[i]; seqLen = Len(pred).
RECURSIVE VerifyMatches(_, _, _)
VerifyMatches(draftTokens, pred, i) ==
    IF /\ i < Len(pred) - 1
       /\ i + 2 <= Len(draftTokens)
       /\ pred[i + 1] = draftTokens[i + 2]
    THEN VerifyMatches(draftTokens, pred, i + 1)
    ELSE i

\* Mutant of HitRate: the guard against dividing by zero is left out.
HitRateNoGuard(matches, len) == [num |-> matches, den |-> len - 1]

\* matches / (draftTokens.length - 1 || 1), as a fraction
HitRate(matches, len) ==
    [num |-> matches, den |-> IF len - 1 = 0 THEN 1 ELSE len - 1]

\* verifyDraftTokens: what it returns for the draft, the model's argmax
\* predictions, and whether the forward pass threw (the catch).
verifyDraftTokens(draftTokens, pred, threw) ==
    IF threw
    THEN [verifiedTokens |-> <<>>, hitRate |-> [num |-> 0, den |-> 1],
          verifiedCount |-> 0, totalCount |-> 0]
    ELSE LET matches == VerifyMatches(draftTokens, pred, 0)
         IN  [verifiedTokens |-> SubSeq(draftTokens, 2, matches + 1),
              hitRate |-> HitRate(matches, Len(draftTokens)),
              verifiedCount |-> matches,
              totalCount |-> Len(draftTokens) - 1]

\* specStats = { hitRate, verifiedCount, totalCount } of a verification result
SpecStatsOf(r) ==
    [verifiedCount |-> r.verifiedCount, totalCount |-> r.totalCount,
     hitRate |-> r.hitRate, present |-> TRUE]

\* const validPrefix = [currentDraftTokens[0], ...verifiedTokens]
validPrefix(current, verifiedTokens) ==
    <<IF Len(current) > 0 THEN current[1] ELSE Undefined>> \o verifiedTokens

\* A token no draft holds: the model predicts something else.
OtherToken == 0

\* Argmax predictions of the forward pass on a draft: the model agrees with
\* the draft up to (not including) position j, for j = 0, 1 or everywhere.
PredictionInputs(draftTokens) ==
    { [i \in 1 .. Len(draftTokens) |->
          IF i <= j /\ i < Len(draftTokens) THEN draftTokens[i + 1] ELSE OtherToken]
      : j \in {0, 1, Len(draftTokens)} }

\* The part of processChunk / processContinuous before its first await:
\* bufferToProcess is taken and processor(bufferToProcess) is awaited.
StartCall(kind, cfg, buf) ==
    IF kind = "chunk"
    THEN [kind |-> "chunk", pc |-> "features",
          chunkSamples |-> cfg.chunkSize * sampleRate,
          bufferToProcess |-> SliceHead(buf, cfg.chunkSize * sampleRate),
          draftTokens |-> <<>>, validPrefix |-> <<>>, specStats |-> NoStats]
    ELSE [kind |-> "continuous", pc |-> "features",
          chunkSamples |-> 0,
          draftTokens |-> <<>>, validPrefix |-> <<>>, specStats |-> NoStats,
          bufferToProcess |->
              IF BufLen(buf) > maxSamples
              THEN SliceFrom(buf, BufLen(buf) - maxSamples)
              ELSE buf]

\* checkProcessing() run on the state (processing, buf): the calls in flight
\* and isProcessing afterwards.
RunCheck(calls, processing, ph, cfg, buf) ==
    LET kind == checkProcessing(processing, ph, cfg, buf)
    IN  IF kind = "none"
        THEN [inflight |-> calls, isProcessing |-> processing]
        ELSE [inflight |-> Append(calls, StartCall(kind, cfg, buf)),
              isProcessing |-> TRUE]

\* const start = processedSamples / sampleRate; end = (processedSamples + chunkSamples) / sampleRate
\* specStats: null unless the caller sets it
SegmentPosted(cfg, p, n, text) ==
    [type |-> "segment", text |-> text, start |-> p, end |-> p + n,
     level |-> cfg.level, specStats |-> NoStats]

PartialPosted(text) ==
    [type |-> "partial", text |-> text, start |-> 0, end |-> 0, level |-> 1,
     specStats |-> NoStats]

ResetPosted ==
    [type |-> "reset", text |-> "", start |-> 0, end |-> 0, level |-> 0,
     specStats |-> NoStats]

\* Decoded texts: empty, or some words.
TextOutcomes == {"", "a"}

\* processChunk: if (config.mode === "chunk" || text.trim())
chunkPosts(cfg, text) == cfg.mode = "chunk" \/ text # ""

\* Mutant of partialPosts: the partial is never posted.
partialPostsNever(text) == FALSE

\* processContinuous: if (text.trim())
partialPosts(text) == text # ""

WithPc(calls, i, newPc) == [calls EXCEPT ![i].pc = newPc]

-----------------------------------------------------------------------------
(* Tier worker actions *)

WorkerInit ==
    /\ phase = "new"
    /\ config = DefaultConfig
    /\ audioBuffer = EmptyBuffer
    /\ isProcessing = FALSE
    /\ processedSamples = 0
    /\ currentDraftTokens = <<>>
    /\ inflight = <<>>
    /\ pendingTimers = 0
    /\ posted = <<>>
    /\ pushed = 0
    /\ ctl = 0
    /\ lostSamples = 0
    /\ lastCleared = [n |-> 0, samples |-> 0, tokens |-> 0]
    /\ lastTrim = NoTrim
    /\ lastText = NoText

\* onmessage, type "configure"
RecvConfigure ==
    /\ phase = "new"
    /\ \E level \in Levels : config' = ConfigFor(level)
    /\ phase' = "configured"
    /\ UNCHANGED <<audioBuffer, isProcessing, processedSamples, currentDraftTokens,
                   inflight, pendingTimers, posted, pushed, pushSize, ctl,
                   lostSamples, lastCleared,
                   lastTrim, lastText>>
    /\ UNCHANGED nonWorkerVars

\* backend || "webgpu"
backendOrDefault(b) == IF b = "" THEN "webgpu" ELSE b

\* let model = null; let processor = null; let tokenizer = null
Components == <<"model", "processor", "tokenizer">>

\* The components the awaits before the i-th one of a load have set.
LoadedBefore(i) == { Components[j] : j \in 1 .. i - 1 }

AllComponents == LoadedBefore(Len(Components) + 1)

\* The init message's backend field, absent or given.
BackendInputs == {"", "webgpu", "wasm"}

\* The init message's quant field: null, the two of the page's quant-select,
\* the one of StartArgs, and full precision.
QuantInputs == {"null", "q4", "fp16", "q8", "fp32"}

\* The worker before its init message, which will carry the backend b and
\* the quant q.
UnloadedWith(b, q) ==
    /\ initBackend = b
    /\ initQuant = q
    /\ backend = "webgpu"
    /\ components = {}
    /\ loads = <<>>
    /\ loadStatus = <<>>
    /\ loadStep = 0

\* The worker before an init message with the backend b and no quant.
Unloaded(b) == UnloadedWith(b, "null")

\* initModel: `${id} Ready${quantInfo}` with quantInfo = quant ? ` (${quant})` : ""
ReadyText(q) ==
    CASE q = "q4" -> "Ready (q4)"
      [] q = "fp16" -> "Ready (fp16)"
      [] q = "q8" -> "Ready (q8)"
      [] q = "fp32" -> "Ready (fp32)"
      [] OTHER -> "Ready"

\* validateQuantization: validationMsg, without its leading sign
ValidatedText(q) ==
    CASE q = "q4" -> "Model validated: Using q4 quantization"
      [] q = "fp16" -> "Model validated: Using fp16 quantization"
      [] OTHER -> "Model validated: Using q8 quantization"

\* validateQuantization: warningMsg, without its leading sign
UncertainText(q) ==
    CASE q = "q4" -> "Quantization validation uncertain for q4"
      [] q = "fp16" -> "Quantization validation uncertain for fp16"
      [] q = "q8" -> "Quantization validation uncertain for q8"
      [] OTHER -> "Quantization validation uncertain for fp32"

\* validateQuantization: what it posts.  validationLevel depends on the
\* dtype the loaded model reports and on the files the load fetched: above 0
\* the validated text is posted unless fp32 was requested, at 0 the warning.
ValidationPosts(q) ==
    { IF q = "fp32" THEN <<>> ELSE <<ValidatedText(q)>>, <<UncertainText(q)>> }

\* initModel is at the await of validateQuantization, which is at its await
\* of model.model._get_tensor
Validating == phase = "loading" /\ loadStep = 1 /\ "model" \in components

\* onmessage, type "init": backend = e.data.backend || "webgpu", then
\* initModel() up to its first await, the model's from_pretrained.
RecvInit ==
    /\ phase = "configured"
    /\ phase' = "loading"
    /\ backend' = backendOrDefault(initBackend)
    /\ loads' = Append(loads, backend')
    /\ loadStatus' = Append(loadStatus, "Loading model...")
    /\ loadStep' = 1
    /\ UNCHANGED <<initBackend, initQuant, components>>
    /\ UNCHANGED <<config, audioBuffer, isProcessing, processedSamples,
                   currentDraftTokens, inflight, pendingTimers, posted, pushed,
                   pushSize, ctl, lostSamples, lastCleared,
                   lastTrim, lastText>>
    /\ UNCHANGED nonLoadVars

\* initModel, loadOptions.progress_callback with status "progress" while the
\* model's from_pretrained is awaited: a load_progress message is posted
LoadProgress ==
    /\ phase = "loading"
    /\ loadStep = 1
    /\ ~Validating
    /\ Len(loadStatus) <= MaxProgress
    /\ loadStatus' = Append(loadStatus, "load_progress")
    /\ UNCHANGED <<initBackend, initQuant, backend, components, loads, loadStep>>
    /\ UNCHANGED workerVars
    /\ UNCHANGED nonLoadVars

\* initModel: the await of the model's or of the processor's from_pretrained
\* returns and the next await begins.  After the model, if (quant):
\* "Validating quantization..." is posted and validateQuantization called,
\* which runs to its end in the same task unless the model has
\* model.model._get_tensor, which it awaits.
ComponentLoaded ==
    /\ phase = "loading"
    /\ loadStep < Len(Components)
    /\ ~Validating
    /\ components' = components \cup {Components[loadStep]}
    /\ IF loadStep = 1 /\ initQuant # "null"
       THEN \/ /\ loadStatus' = Append(loadStatus, "Validating quantization...")
               /\ loadStep' = loadStep
            \/ /\ \E posts \in ValidationPosts(initQuant) :
                     loadStatus' =
                        Append(loadStatus, "Validating quantization...") \o posts
               /\ loadStep' = loadStep + 1
       ELSE /\ loadStep' = loadStep + 1
            /\ UNCHANGED loadStatus
    /\ UNCHANGED <<initBackend, initQuant, backend, loads>>
    /\ UNCHANGED workerVars
    /\ UNCHANGED nonLoadVars

\* validateQuantization after its await of _get_tensor, which its own catch
\* covers: the validation text is posted, and initModel awaits the processor
QuantValidated ==
    /\ Validating
    /\ \E posts \in ValidationPosts(initQuant) : loadStatus' = loadStatus \o posts
    /\ loadStep' = loadStep + 1
    /\ UNCHANGED <<initBackend, initQuant, backend, components, loads>>
    /\ UNCHANGED workerVars
    /\ UNCHANGED nonLoadVars

\* initModel: the await of the tokenizer's from_pretrained returns, "Ready"
\* with the quant is posted
LoadDone ==
    /\ phase = "loading"
    /\ loadStep = Len(Components)
    /\ phase' = "ready"
    /\ components' = components \cup {Components[loadStep]}
    /\ loadStatus' = Append(loadStatus, ReadyText(initQuant))
    /\ UNCHANGED <<initBackend, initQuant, backend, loads, loadStep>>
    /\ UNCHANGED <<config, audioBuffer, isProcessing, processedSamples,
                   currentDraftTokens, inflight, pendingTimers, posted, pushed,
                   pushSize, ctl, lostSamples, lastCleared,
                   lastTrim, lastText>>
    /\ UNCHANGED nonLoadVars

\* A worker whose initModel() has returned on the backend b.
Loaded(b) ==
    /\ initBackend = b
    /\ initQuant = "null"
    /\ backend = b
    /\ components = AllComponents
    /\ loads = <<b>>
    /\ loadStatus = <<"Loading model...", "Ready">>
    /\ loadStep = Len(Components)

\* initModel, catch (err): if (backend !== "wasm") the fallback is tried,
\* else an Error is thrown.
LoadFailed(b) == IF b # "wasm" THEN "fallback" ELSE "failed"

\* initModel: the from_pretrained the try block awaits rejects.  The catch either
\* calls from_pretrained with device "wasm" or throws out of initModel and of
\* the onmessage handler; it posts nothing.
LoadFail ==
    /\ phase = "loading"
    /\ ~Validating
    /\ phase' = LoadFailed(backend)
    /\ loads' = IF phase' = "fallback" THEN Append(loads, "wasm") ELSE loads
    /\ loadStep' = IF phase' = "fallback" THEN 1 ELSE loadStep
    /\ UNCHANGED <<initBackend, initQuant, backend, loadStatus, components>>
    /\ UNCHANGED <<config, audioBuffer, isProcessing, processedSamples,
                   currentDraftTokens, inflight, pendingTimers, posted, pushed,
                   pushSize, ctl, lostSamples, lastCleared,
                   lastTrim, lastText>>
    /\ UNCHANGED nonLoadVars

\* initModel, the fallback: the await of the model's or of the processor's
\* from_pretrained returns and the next await begins
FallbackLoaded ==
    /\ phase = "fallback"
    /\ loadStep < Len(Components)
    /\ components' = components \cup {Components[loadStep]}
    /\ loadStep' = loadStep + 1
    /\ UNCHANGED <<initBackend, initQuant, backend, loads, loadStatus>>
    /\ UNCHANGED workerVars
    /\ UNCHANGED nonLoadVars

\* initModel, the fallback: the await of the tokenizer's from_pretrained
\* returns, "Ready (WASM fallback)" is posted
FallbackDone ==
    /\ phase = "fallback"
    /\ loadStep = Len(Components)
    /\ phase' = "ready"
    /\ components' = components \cup {Components[loadStep]}
    /\ loadStatus' = Append(loadStatus, "Ready (WASM fallback)")
    /\ UNCHANGED <<initBackend, initQuant, backend, loads, loadStep>>
    /\ UNCHANGED <<config, audioBuffer, isProcessing, processedSamples,
                   currentDraftTokens, inflight, pendingTimers, posted, pushed,
                   pushSize, ctl, lostSamples, lastCleared,
                   lastTrim, lastText>>
    /\ UNCHANGED nonLoadVars

\* initModel, the fallback: the await it is at rejects; catch (wasmErr)
\* throws new Error("All backends failed...") out of initModel.
FallbackFail ==
    /\ phase = "fallback"
    /\ phase' = "failed"
    /\ UNCHANGED <<initBackend, initQuant, backend, loads, loadStatus, components, loadStep>>
    /\ UNCHANGED <<config, audioBuffer, isProcessing, processedSamples,
                   currentDraftTokens, inflight, pendingTimers, posted, pushed,
                   pushSize, ctl, lostSamples, lastCleared,
                   lastTrim, lastText>>
    /\ UNCHANGED nonLoadVars

\* The phases in which the worker is sent audio and control messages.
Serving == phase \in {"loading", "fallback", "ready", "failed"}

\* onmessage, type "audio": append, then checkProcessing()
AudioHandled ==
    /\ LET data == [lo |-> pushed, hi |-> pushed + pushSize]
           buf == Concat(audioBuffer, data)
           after == RunCheck(inflight, isProcessing, phase, config, buf)
       IN  /\ audioBuffer' = buf
           /\ inflight' = after.inflight
           /\ isProcessing' = after.isProcessing
    /\ pushed' = pushed + pushSize
    /\ UNCHANGED <<phase, config, processedSamples, currentDraftTokens,
                   pendingTimers, posted, pushSize, ctl, lostSamples, lastCleared,
                   lastTrim, lastText>>

\* onmessage, type "audio", for the next buffer of the audio source
RecvAudio ==
    /\ Serving
    /\ pushed < MaxChunks * config.chunkSize * sampleRate
    /\ pushed < MaxPushes * pushSize
    /\ AudioHandled
    /\ UNCHANGED nonWorkerVars

\* The audio source's buffer size for the continuous tier on its own: 0.1 s
SteadyPushSize == sampleRate \div 10

\* onmessage, type "audio", for the next 0.1 s buffer
RecvSteadyAudio ==
    /\ Serving
    /\ pushed < MaxSteadyPushes * pushSize
    /\ AudioHandled
    /\ UNCHANGED nonWorkerVars

\* onmessage, type "draft_tokens"
RecvDraftTokens ==
    /\ Serving
    /\ ctl < MaxCtl
    /\ \E tokens \in DraftInputs :
          currentDraftTokens' = setDraftTokens(config.level, currentDraftTokens, tokens)
    /\ ctl' = ctl + 1
    /\ UNCHANGED <<phase, config, audioBuffer, isProcessing, processedSamples,
                   inflight, pendingTimers, posted, pushed, pushSize,
                   lostSamples, lastCleared,
                   lastTrim, lastText>>
    /\ UNCHANGED nonWorkerVars

\* onmessage, type "commit": the handler
CommitHandled ==
    /\ audioBuffer' = EmptyBuffer
    /\ currentDraftTokens' = commitDraftTokens(currentDraftTokens)
    /\ processedSamples' = commitProcessedSamples(processedSamples)
    /\ posted' = Append(posted, ResetPosted)
    /\ lastCleared' = [n |-> lastCleared.n + 1, samples |-> BufLen(audioBuffer),
                        tokens |-> Len(currentDraftTokens)]
    /\ ctl' = ctl + 1
    /\ UNCHANGED <<phase, config, isProcessing, inflight, pendingTimers, pushed,
                   pushSize, lostSamples, lastTrim, lastText>>

\* onmessage, type "commit"
RecvCommit ==
    /\ Serving
    /\ ctl < MaxCtl
    /\ CommitHandled
    /\ UNCHANGED nonWorkerVars

\* The setTimeout(() => checkProcessing(), 0) callback
TimerFire ==
    /\ pendingTimers > 0
    /\ pendingTimers' = pendingTimers - 1
    /\ LET after == RunCheck(inflight, isProcessing, phase, config, audioBuffer)
       IN  /\ inflight' = after.inflight
           /\ isProcessing' = after.isProcessing
    /\ UNCHANGED <<phase, config, audioBuffer, processedSamples, currentDraftTokens,
                   posted, pushed, pushSize, ctl, lostSamples, lastCleared,
                   lastTrim, lastText>>
    /\ UNCHANGED nonWorkerVars

\* Mutant of CallThrows: the buffer is shifted and processedSamples advanced
\* after an exception too.
CallThrowsShifts(i) ==
    /\ ctl < MaxCtl
    /\ ctl' = ctl + 1
    /\ inflight' = RemoveAt(inflight, i)
    /\ isProcessing' = FALSE
    /\ pendingTimers' = IF inflight[i].kind = "chunk" THEN pendingTimers + 1
                        ELSE pendingTimers
    /\ audioBuffer' = SliceFrom(audioBuffer, inflight[i].chunkSamples)
    /\ processedSamples' = processedSamples + inflight[i].chunkSamples
    /\ UNCHANGED <<phase, config, currentDraftTokens,
                   posted, pushed, pushSize, lostSamples, lastCleared,
                   lastTrim, lastText>>
    /\ UNCHANGED nonWorkerVars

\* catch (e) { console.error } finally { isProcessing = false; ... } of call i
CallThrows(i) ==
    /\ ctl < MaxCtl
    /\ ctl' = ctl + 1
    /\ inflight' = RemoveAt(inflight, i)
    /\ isProcessing' = FALSE
    /\ pendingTimers' = IF inflight[i].kind = "chunk" THEN pendingTimers + 1
                        ELSE pendingTimers
    /\ UNCHANGED <<phase, config, audioBuffer, processedSamples, currentDraftTokens,
                   posted, pushed, pushSize, lostSamples, lastCleared,
                   lastTrim, lastText>>
    /\ UNCHANGED nonWorkerVars

\* await processor(bufferToProcess) returns; the next await is verifyDraftTokens
\* or model.generate
FeaturesDone ==
    \E i \in 1 .. Len(inflight) :
        /\ inflight[i].pc = "features"
        /\ inflight' =
              IF /\ inflight[i].kind = "chunk"
                 /\ useDraftTokens(currentDraftTokens, config)
              THEN [inflight EXCEPT ![i].pc = "verify",
                                    ![i].draftTokens = currentDraftTokens]
              ELSE WithPc(inflight, i, "generate")
        /\ UNCHANGED <<phase, config, audioBuffer, isProcessing, processedSamples,
                       currentDraftTokens, pendingTimers, posted, pushed, pushSize,
                       ctl, lostSamples, lastCleared,
                       lastTrim, lastText>>
        /\ UNCHANGED nonWorkerVars

\* await processor(bufferToProcess) throws
FeaturesFail ==
    \E i \in 1 .. Len(inflight) :
        /\ inflight[i].pc = "features"
        /\ CallThrows(i)

\* processChunk after await verifyDraftTokens(...) returned r: specStats is
\* set; with verified tokens model.generate is called with validPrefix, else
\* without a prefix
AfterVerify(calls, i, current, r) ==
    IF Len(r.verifiedTokens) > 0
    THEN [calls EXCEPT ![i].pc = "generatePrefix",
                       ![i].specStats = SpecStatsOf(r),
                       ![i].validPrefix = validPrefix(current, r.verifiedTokens)]
    ELSE [calls EXCEPT ![i].pc = "generate",
                       ![i].specStats = SpecStatsOf(r)]

\* await verifyDraftTokens(...) returns after a forward pass that threw (it
\* catches the error itself)
VerifyFail ==
    \E i \in 1 .. Len(inflight) :
        /\ inflight[i].pc = "verify"
        /\ ctl < MaxCtl
        /\ ctl' = ctl + 1
        /\ inflight' = AfterVerify(inflight, i, currentDraftTokens,
                                   verifyDraftTokens(inflight[i].draftTokens, <<>>, TRUE))
        /\ UNCHANGED <<phase, config, audioBuffer, isProcessing, processedSamples,
                       currentDraftTokens, pendingTimers, posted, pushed, pushSize,
                       lostSamples, lastCleared,
                       lastTrim, lastText>>
        /\ UNCHANGED nonWorkerVars

\* await verifyDraftTokens(...) returns after a forward pass
VerifyDone ==
    \E i \in 1 .. Len(inflight) :
        /\ inflight[i].pc = "verify"
        /\ \E pred \in PredictionInputs(inflight[i].draftTokens) :
              inflight' = AfterVerify(inflight, i, currentDraftTokens,
                              verifyDraftTokens(inflight[i].draftTokens, pred, FALSE))
        /\ UNCHANGED <<phase, config, audioBuffer, isProcessing, processedSamples,
                       currentDraftTokens, pendingTimers, posted, pushed, pushSize,
                       ctl, lostSamples, lastCleared,
                       lastTrim, lastText>>
        /\ UNCHANGED nonWorkerVars

\* await model.generate({decoder_input_ids: [validPrefix], ...}) returns
GeneratePrefixDone ==
    \E i \in 1 .. Len(inflight) :
        /\ inflight[i].pc = "generatePrefix"
        /\ inflight' = WithPc(inflight, i, "decode")
        /\ UNCHANGED <<phase, config, audioBuffer, isProcessing, processedSamples,
                       currentDraftTokens, pendingTimers, posted, pushed, pushSize,
                       ctl, lostSamples, lastCleared,
                       lastTrim, lastText>>
        /\ UNCHANGED nonWorkerVars

\* await model.generate({decoder_input_ids: [validPrefix], ...}) throws: the
\* inner catch falls back to normal generation
GeneratePrefixFail ==
    \E i \in 1 .. Len(inflight) :
        /\ inflight[i].pc = "generatePrefix"
        /\ ctl < MaxCtl
        /\ ctl' = ctl + 1
        /\ inflight' = [inflight EXCEPT ![i].pc = "generate",
                                        ![i].validPrefix = <<>>]
        /\ UNCHANGED <<phase, config, audioBuffer, isProcessing, processedSamples,
                       currentDraftTokens, pendingTimers, posted, pushed, pushSize,
                       lostSamples, lastCleared,
                       lastTrim, lastText>>
        /\ UNCHANGED nonWorkerVars

\* await model.generate({...}) returns; tokenizer.decode is awaited
GenerateDone ==
    \E i \in 1 .. Len(inflight) :
        /\ inflight[i].pc = "generate"
        /\ inflight' = WithPc(inflight, i, "decode")
        /\ UNCHANGED <<phase, config, audioBuffer, isProcessing, processedSamples,
                       currentDraftTokens, pendingTimers, posted, pushed, pushSize,
                       ctl, lostSamples, lastCleared,
                       lastTrim, lastText>>
        /\ UNCHANGED nonWorkerVars

\* await model.generate({...}) throws
GenerateFail ==
    \E i \in 1 .. Len(inflight) :
        /\ inflight[i].pc = "generate"
        /\ CallThrows(i)

\* processChunk: await tokenizer.decode(...) returns; the segment is posted,
\* the buffer shifted, processedSamples advanced; finally
ChunkDecodeDone ==
    \E i \in 1 .. Len(inflight) :
        /\ inflight[i].pc = "decode"
        /\ inflight[i].kind = "chunk"
        /\ \E text \in TextOutcomes :
              /\ lastText' = text
              /\ posted' = IF chunkPosts(config, text)
                           THEN Append(posted,
                                       [SegmentPosted(config, processedSamples,
                                                      inflight[i].chunkSamples, text)
                                           EXCEPT !.specStats = inflight[i].specStats])
                           ELSE posted
        /\ audioBuffer' = SliceFrom(audioBuffer, inflight[i].chunkSamples)
        /\ processedSamples' = processedSamples + inflight[i].chunkSamples
        /\ lostSamples' = lostSamples +
              Outside(SliceHead(audioBuffer, inflight[i].chunkSamples),
                      inflight[i].bufferToProcess)
        /\ isProcessing' = FALSE
        /\ pendingTimers' = pendingTimers + 1
        /\ inflight' = RemoveAt(inflight, i)
        /\ UNCHANGED <<phase, config, currentDraftTokens, pushed, pushSize, ctl,
                       lastCleared,
                       lastTrim>>
        /\ UNCHANGED nonWorkerVars

\* processContinuous: await tokenizer.decode(...) returns; a non-empty text is
\* posted as a partial, the buffer trimmed to the last contextSamples; finally
ContinuousDecodeDone ==
    \E i \in 1 .. Len(inflight) :
        /\ inflight[i].pc = "decode"
        /\ inflight[i].kind = "continuous"
        /\ \E text \in TextOutcomes :
              /\ lastText' = text
              /\ posted' = IF partialPosts(text)
                           THEN Append(posted, PartialPosted(text))
                           ELSE posted
        /\ audioBuffer' = trimContinuous(audioBuffer)
        /\ lastTrim' = IF BufLen(audioBuffer) > contextSamples THEN pushed ELSE lastTrim
        /\ isProcessing' = FALSE
        /\ inflight' = RemoveAt(inflight, i)
        /\ UNCHANGED <<phase, config, processedSamples, currentDraftTokens,
                       pendingTimers, pushed, pushSize, ctl, lostSamples, lastCleared>>
        /\ UNCHANGED nonWorkerVars

\* await tokenizer.decode(...) throws
DecodeFail ==
    \E i \in 1 .. Len(inflight) :
        /\ inflight[i].pc = "decode"
        /\ CallThrows(i)

NextWorker ==
    \/ RecvConfigure
    \/ RecvInit
    \/ ComponentLoaded
    \/ LoadDone
    \/ RecvAudio
    \/ RecvDraftTokens
    \/ RecvCommit
    \/ TimerFire
    \/ FeaturesDone
    \/ FeaturesFail
    \/ VerifyDone
    \/ VerifyFail
    \/ GeneratePrefixDone
    \/ GeneratePrefixFail
    \/ GenerateDone
    \/ GenerateFail
    \/ ChunkDecodeDone
    \/ ContinuousDecodeDone
    \/ DecodeFail

-----------------------------------------------------------------------------
(* ONNX tier worker: the worker's handlers and the OnnxWhisper instance *)

\* let config = {}; let pendingConfig = null
NoOnnxConfig == [mode |-> "legacy", chunkSize |-> 0, stepSize |-> 0, level |-> 0]

\* The tiers an ONNX worker is configured for: the continuous one and a chunk one.
OnnxLevels == {1, 2}

\* After construction: no OnnxWhisper instance, processedSamples = 0.
OnnxInit ==
    /\ onnxPhase = "new"
    /\ pendingConfig = NoOnnxConfig
    /\ onnxConfig = NoOnnxConfig
    /\ onnxAudioBuffer = EmptyBuffer
    /\ onnxIsProcessing = FALSE
    /\ onnxProcessedSamples = 0
    /\ transcribing = <<>>
    /\ onnxPosted = <<>>
    /\ onnxPushed = 0
    /\ onnxCtl = 0

\* whisperInstances[getSessionKey(config.level)] exists
OnnxInstance == onnxPhase # "new"

\* OnnxWhisper.isReady(): tokenizer, processor and model are set
OnnxIsReady == onnxPhase \in {"warmup", "warmupGenerate", "ready", "warmupFailed"}

\* onmessage, case "configure", before init: there is no instance yet, so
\* only pendingConfig is set.
OnnxRecvConfigure ==
    /\ onnxPhase = "new"
    /\ pendingConfig = NoOnnxConfig
    /\ \E level \in OnnxLevels : pendingConfig' = ConfigFor(level)
    /\ UNCHANGED <<onnxPhase, onnxConfig, onnxAudioBuffer, onnxIsProcessing,
                   onnxProcessedSamples, transcribing, onnxPosted, onnxPushed, onnxCtl>>
    /\ UNCHANGED nonOnnxVars

\* The awaits of OnnxWhisper.init() and the two of warmup()
OnnxLoadSteps == {"tokenizer", "processor", "model"}

OnnxWarmupSteps == {"warmup", "warmupGenerate"}

\* The await after the one handleInit is at
OnnxNextStep(p) ==
    CASE p = "tokenizer" -> "processor"
      [] p = "processor" -> "model"
      [] p = "model" -> "warmup"
      [] p = "warmup" -> "warmupGenerate"
      [] OTHER -> "ready"

\* onmessage, case "init": handleInit merges the pending config, creates the
\* instance and awaits its init(), which awaits the tokenizer first
OnnxRecvInit ==
    /\ onnxPhase = "new"
    /\ pendingConfig # NoOnnxConfig
    /\ onnxConfig' = pendingConfig
    /\ onnxPhase' = "tokenizer"
    /\ UNCHANGED <<pendingConfig, onnxAudioBuffer, onnxIsProcessing,
                   onnxProcessedSamples, transcribing, onnxPosted, onnxPushed, onnxCtl>>
    /\ UNCHANGED nonOnnxVars

OnnxProgressPosted(level) ==
    [type |-> "load_progress", text |-> "", start |-> 0, end |-> 0, level |-> level]

\* progressCallback with status "progress" while a from_pretrained is awaited
OnnxLoadProgress ==
    /\ onnxPhase \in OnnxLoadSteps
    /\ Cardinality({k \in 1 .. Len(onnxPosted) : onnxPosted[k].type = "load_progress"})
          < MaxProgress
    /\ onnxPosted' = Append(onnxPosted, OnnxProgressPosted(onnxConfig.level))
    /\ UNCHANGED <<onnxPhase, pendingConfig, onnxConfig, onnxAudioBuffer, onnxIsProcessing,
                   onnxProcessedSamples, transcribing, onnxPushed, onnxCtl>>
    /\ UNCHANGED nonOnnxVars

\* init(): a from_pretrained returns and the next one is awaited
OnnxComponentLoaded ==
    /\ onnxPhase \in {"tokenizer", "processor"}
    /\ onnxPhase' = OnnxNextStep(onnxPhase)
    /\ UNCHANGED <<pendingConfig, onnxConfig, onnxAudioBuffer, onnxIsProcessing,
                   onnxProcessedSamples, transcribing, onnxPosted, onnxPushed, onnxCtl>>
    /\ UNCHANGED nonOnnxVars

\* handleInit: init() has loaded tokenizer, processor and model; warmup()
\* awaits this.processor(dummySpectrogram)
OnnxInitDone ==
    /\ onnxPhase = "model"
    /\ onnxPhase' = OnnxNextStep(onnxPhase)
    /\ UNCHANGED <<pendingConfig, onnxConfig, onnxAudioBuffer, onnxIsProcessing,
                   onnxProcessedSamples, transcribing, onnxPosted, onnxPushed, onnxCtl>>
    /\ UNCHANGED nonOnnxVars

\* warmup(): the processor returns and model.generate is awaited
OnnxWarmupFeaturesDone ==
    /\ onnxPhase = "warmup"
    /\ onnxPhase' = OnnxNextStep(onnxPhase)
    /\ UNCHANGED <<pendingConfig, onnxConfig, onnxAudioBuffer, onnxIsProcessing,
                   onnxProcessedSamples, transcribing, onnxPosted, onnxPushed, onnxCtl>>
    /\ UNCHANGED nonOnnxVars

OnnxStatusPosted ==
    [type |-> "status", text |-> "Ready (ONNX)", start |-> 0, end |-> 0, level |-> 0]

\* handleInit: warmup() returns; pendingConfig = null and the status is posted
OnnxWarmupDone ==
    /\ onnxPhase = "warmupGenerate"
    /\ onnxPhase' = OnnxNextStep(onnxPhase)
    /\ pendingConfig' = NoOnnxConfig
    /\ onnxPosted' = Append(onnxPosted, OnnxStatusPosted)
    /\ UNCHANGED <<onnxConfig, onnxAudioBuffer, onnxIsProcessing,
                   onnxProcessedSamples, transcribing, onnxPushed, onnxCtl>>
    /\ UNCHANGED nonOnnxVars

OnnxErrorPosted ==
    [type |-> "error", text |-> "", start |-> 0, end |-> 0, level |-> 0]

\* An await of init() or warmup() rejects: handleInit rejects and the catch of
\* onmessage posts { type: "error" }.  The instance stays, with the
\* components loaded so far.
OnnxInitFail ==
    /\ onnxPhase \in OnnxLoadSteps \cup OnnxWarmupSteps
    /\ onnxPhase' = IF onnxPhase \in OnnxWarmupSteps THEN "warmupFailed" ELSE "failed"
    /\ onnxPosted' = Append(onnxPosted, OnnxErrorPosted)
    /\ UNCHANGED <<pendingConfig, onnxConfig, onnxAudioBuffer, onnxIsProcessing,
                   onnxProcessedSamples, transcribing, onnxPushed, onnxCtl>>
    /\ UNCHANGED nonOnnxVars

\* handleAudio after addAudioChunk: which of processContinuous / processChunk
\* gets as far as the first await of transcribe.  Either returns when
\* getProcessingState() is true or the buffer is short; transcribe throws
\* (caught and logged by its caller) when the instance is not ready.
onnxStarts(processing, ready, cfg, buf) ==
    IF processing \/ ~ready THEN "none"
    ELSE IF cfg.mode = "continuous"
         THEN (IF BufLen(buf) < sampleRate * cfg.stepSize THEN "none" ELSE "continuous")
    ELSE IF cfg.mode = "chunk"
         THEN (IF BufLen(buf) >= sampleRate * cfg.chunkSize THEN "chunk" ELSE "none")
    ELSE "none"

\* The call of transcribe by processChunk / processContinuous, suspended at
\* await this.processor(audioData)
OnnxCall(kind, cfg, buf) ==
    IF kind = "chunk"
    THEN [kind |-> "chunk", pc |-> "features",
          chunkSamples |-> cfg.chunkSize * sampleRate,
          audioData |-> SliceHead(buf, cfg.chunkSize * sampleRate)]
    ELSE [kind |-> "continuous", pc |-> "features", chunkSamples |-> 0,
          audioData |-> IF BufLen(buf) > maxSamples
                        THEN SliceFrom(buf, BufLen(buf) - maxSamples)
                        ELSE buf]

\* onmessage, case "audio": handleAudio
OnnxRecvAudio ==
    /\ onnxPhase # "new"
    /\ onnxPushed < MaxChunks * onnxConfig.chunkSize * sampleRate
    /\ onnxPushed < MaxPushes * pushSize
    /\ LET data == [lo |-> onnxPushed, hi |-> onnxPushed + pushSize]
           buf == Concat(onnxAudioBuffer, data)
           kind == onnxStarts(onnxIsProcessing, OnnxIsReady, onnxConfig, buf)
       IN  /\ onnxAudioBuffer' = buf
           /\ IF kind = "none"
              THEN UNCHANGED <<transcribing, onnxIsProcessing>>
              ELSE /\ transcribing' = Append(transcribing, OnnxCall(kind, onnxConfig, buf))
                   /\ onnxIsProcessing' = TRUE
    /\ onnxPushed' = onnxPushed + pushSize
    /\ UNCHANGED <<onnxPhase, pendingConfig, onnxConfig, onnxProcessedSamples,
                   onnxPosted, onnxCtl>>
    /\ UNCHANGED nonOnnxVars

\* OnnxWhisper.reset: this.isProcessing = false
onnxCommitIsProcessing(processing) == FALSE

\* onmessage, case "commit": processedSamples = 0
onnxCommitProcessedSamples(p) == 0

\* onmessage, case "commit", with an instance: reset(true), processedSamples = 0,
\* { type: "reset" } is posted
OnnxRecvCommit ==
    /\ OnnxInstance
    /\ onnxCtl < MaxCtl
    /\ onnxAudioBuffer' = EmptyBuffer
    /\ onnxIsProcessing' = onnxCommitIsProcessing(onnxIsProcessing)
    /\ onnxProcessedSamples' = onnxCommitProcessedSamples(onnxProcessedSamples)
    /\ onnxPosted' = Append(onnxPosted, ResetPosted)
    /\ onnxCtl' = onnxCtl + 1
    /\ UNCHANGED <<onnxPhase, pendingConfig, onnxConfig, transcribing, onnxPushed>>
    /\ UNCHANGED nonOnnxVars

\* transcribe: await this.processor(audioData) returns; model.generate is awaited
OnnxFeaturesDone ==
    \E i \in 1 .. Len(transcribing) :
        /\ transcribing[i].pc = "features"
        /\ transcribing' = WithPc(transcribing, i, "generate")
        /\ UNCHANGED <<onnxPhase, pendingConfig, onnxConfig, onnxAudioBuffer,
                       onnxIsProcessing, onnxProcessedSamples, onnxPosted,
                       onnxPushed, onnxCtl>>
        /\ UNCHANGED nonOnnxVars

\* transcribe called by processChunk returns (finally: isProcessing = false);
\* the segment is posted, processedSamples advanced, the buffer shifted
OnnxChunkDone ==
    \E i \in 1 .. Len(transcribing) :
        /\ transcribing[i].pc = "generate"
        /\ transcribing[i].kind = "chunk"
        /\ \E text \in TextOutcomes :
              onnxPosted' = Append(onnxPosted,
                                   SegmentPosted(onnxConfig, onnxProcessedSamples,
                                                 transcribing[i].chunkSamples, text))
        /\ onnxProcessedSamples' = onnxProcessedSamples + transcribing[i].chunkSamples
        /\ onnxAudioBuffer' = SliceFrom(onnxAudioBuffer, transcribing[i].chunkSamples)
        /\ onnxIsProcessing' = FALSE
        /\ transcribing' = RemoveAt(transcribing, i)
        /\ UNCHANGED <<onnxPhase, pendingConfig, onnxConfig, onnxPushed, onnxCtl>>
        /\ UNCHANGED nonOnnxVars

\* transcribe called by processContinuous returns (finally: isProcessing =
\* false); the partial is posted, the buffer trimmed to the last contextSamples
OnnxContinuousDone ==
    \E i \in 1 .. Len(transcribing) :
        /\ transcribing[i].pc = "generate"
        /\ transcribing[i].kind = "continuous"
        /\ \E text \in TextOutcomes :
              onnxPosted' = Append(onnxPosted, PartialPosted(text))
        /\ onnxAudioBuffer' = trimContinuous(onnxAudioBuffer)
        /\ onnxIsProcessing' = FALSE
        /\ transcribing' = RemoveAt(transcribing, i)
        /\ UNCHANGED <<onnxPhase, pendingConfig, onnxConfig, onnxProcessedSamples,
                       onnxPushed, onnxCtl>>
        /\ UNCHANGED nonOnnxVars

\* An await of transcribe rejects: finally isProcessing = false, and the
\* caller's catch logs the error
OnnxTranscribeFail ==
    \E i \in 1 .. Len(transcribing) :
        /\ onnxCtl < MaxCtl
        /\ onnxIsProcessing' = FALSE
        /\ transcribing' = RemoveAt(transcribing, i)
        /\ onnxCtl' = onnxCtl + 1
        /\ UNCHANGED <<onnxPhase, pendingConfig, onnxConfig, onnxAudioBuffer,
                       onnxProcessedSamples, onnxPosted, onnxPushed>>
        /\ UNCHANGED nonOnnxVars

-----------------------------------------------------------------------------
(* The Transcriber's workers: init, worker errors, restartWorker *)

\* No stored configuration: this.workerConfigs[level] is undefined.
NoConfig == [config |-> [level |-> 0, mode |-> "none", num_beams |-> 0],
             language |-> "", backend |-> "", model |-> "", quant |-> ""]

\* No init message handled yet.
NoArgs == [type |-> "none", language |-> "", backend |-> "", model |-> "", quant |-> ""]

\* Arguments of init(language, backend, model, enabledLayers, quant); the
\* backend "" is a backend not given, the quant "null" the default null.
StartArgs ==
    { [language |-> "en", backend |-> "", model |-> "whisper-tiny", quant |-> "null"],
      [language |-> "auto", backend |-> "wasm", model |-> "whisper-base", quant |-> "q8"] }

\* allConfigs: generationParams.num_beams of a tier
num_beams(level) ==
    CASE level = 1 -> 1
      [] level = 2 -> 2
      [] level = 3 -> 3
      [] OTHER -> 5

\* allConfigs: the entry of a tier
TierConfig(level) ==
    [level |-> level, mode |-> mode(level), num_beams |-> num_beams(level)]

\* const workerConfig = { config, language, backend: backend || "webgpu", model, quant }
workerConfig(cfg, args) ==
    [config |-> cfg, language |-> args.language,
     backend |-> backendOrDefault(args.backend), model |-> args.model,
     quant |-> args.quant]

\* { type: "configure", config }
ConfigureMsg(cfg) ==
    [type |-> "configure", config |-> cfg,
     language |-> "", backend |-> "", model |-> "", quant |-> ""]

\* { type: "init", language, backend, model, quant }
InitMsg(language, b, model, quant) ==
    [type |-> "init", config |-> NoConfig.config,
     language |-> language, backend |-> b, model |-> model, quant |-> quant]

\* Mutant of restartInitMsg: the quantization is not passed on.
restartInitMsgNoQuant(stored) ==
    InitMsg(stored.language, stored.backend, stored.model, "null")

\* restartWorker: the init message of the replacement worker
restartInitMsg(stored) ==
    InitMsg(stored.language, stored.backend, stored.model, stored.quant)

\* new Worker(...) with worker.level = level, then the two messages posted;
\* read counts the messages of inbox the worker has handled
NewWorker(level, configure, init) ==
    [level |-> level, phase |-> "new", inbox |-> <<configure, init>>, read |-> 0,
     config |-> DefaultConfig, args |-> NoArgs]

\* The levels of a sequence of workers.
LevelsOf(ws, p) == { p[ws[k]].level : k \in 1 .. Len(ws) }

\* The state the constructor leaves.
Constructed ==
    /\ isInitialized = FALSE
    /\ initPc = "idle"
    /\ workers = <<>>
    /\ pool = <<>>
    /\ workerConfigs = [level \in Levels |-> NoConfig]
    /\ statuses = <<>>
    /\ errors = 0
    /\ enabledLayers = Levels
    /\ awaiting = <<>>
    /\ stopped = FALSE
    /\ inits = 0
    /\ timingStats = initializeTimingStats(Levels)
    /\ timed = NoTimed

\* The levels of a set in ascending order: allConfigs.filter(...)
RECURSIVE Ascending(_)
Ascending(levels) ==
    IF levels = {} THEN <<>>
    ELSE LET lowest == CHOOSE l \in levels : \A m \in levels : l <= m
         IN  <<lowest>> \o Ascending(levels \ {lowest})

\* init(): the workers made by configs.map(async (config) => ...)
InitWorkers(configs, args) ==
    [k \in 1 .. Len(configs) |->
        NewWorker(configs[k], ConfigureMsg(TierConfig(configs[k])),
                  InitMsg(args.language, backendOrDefault(args.backend),
                          args.model, args.quant))]

\* A worker that has handled its configure and init messages and has loaded.
LoadedWorker(w) ==
    [w EXCEPT !.phase = "ready", !.read = Len(w.inbox),
              !.config = ConfigFor(w.level), !.args = w.inbox[2]]

\* The Transcriber after init("en", undefined, "whisper-tiny", levels) has
\* returned and its workers have loaded; nothing else has been called.
Initialized(levels) ==
    LET args == CHOOSE a \in StartArgs : a.backend = ""
        configs == Ascending(levels)
        made == InitWorkers(configs, args)
    IN  /\ isInitialized = TRUE
        /\ initPc = "done"
        /\ workers = [k \in 1 .. Len(configs) |-> k]
        /\ pool = [k \in 1 .. Len(configs) |-> LoadedWorker(made[k])]
        /\ workerConfigs =
              [level \in Levels |->
                  IF level \in levels THEN workerConfig(TierConfig(level), args)
                  ELSE NoConfig]
        /\ statuses = <<[text |-> "Initializing", n |-> Len(configs)],
                        [text |-> "Multi-Agent Swarm Ready", n |-> 0]>>
        /\ errors = 0
        /\ enabledLayers = levels
        /\ awaiting = <<>>
        /\ stopped = FALSE
        /\ inits = 1
        /\ timingStats = initializeTimingStats(levels)
        /\ timed = NoTimed

\* enabledLayers of an init call
EnabledLayerInputs ==
    { e \in SUBSET Levels : e # {} /\ Cardinality(e) <= MaxEnabled }

\* init(language, backend, model, enabledLayers, quant) past its
\* isInitialized check, up to await Promise.all(initPromises)
InitCalled(layers, args) ==
    LET configs == Ascending(layers) IN
    /\ enabledLayers' = layers
    /\ statuses' = Append(statuses, [text |-> "Initializing", n |-> Len(configs)])
    /\ pool' = pool \o InitWorkers(configs, args)
    /\ workerConfigs' =
          [level \in Levels |->
              IF level \in layers
              THEN workerConfig(TierConfig(level), args)
              ELSE workerConfigs[level]]
    /\ awaiting' = Append(awaiting, [k \in 1 .. Len(configs) |-> Len(pool) + k])
    /\ initPc' = "awaiting"
    /\ stopped' = FALSE
    /\ inits' = inits + 1
    /\ timingStats' = initializeTimingStats(layers)
    /\ UNCHANGED timed
    /\ UNCHANGED <<isInitialized, workers, errors>>
    /\ UNCHANGED <<mergeVars, workerVars, cascadeVars, orderVars, fnVars, loadVars,
                   onnxVars, streamVars>>

\* The first init call
Init ==
    /\ ~isInitialized
    /\ initPc = "idle"
    /\ \E layers \in EnabledLayerInputs, args \in StartArgs : InitCalled(layers, args)

\* A later init call: in the task of a call that is still at its await, or
\* after stop
InitAgain ==
    /\ ~isInitialized
    /\ initPc # "idle"
    /\ inits < MaxInits
    /\ \E layers \in EnabledLayerInputs, args \in StartArgs : InitCalled(layers, args)

\* init() after await Promise.all(initPromises), for the oldest call waiting:
\* the promises resolve with the workers as soon as they are constructed
InitResume ==
    /\ initPc = "awaiting"
    /\ workers' = Head(awaiting)
    /\ awaiting' = Tail(awaiting)
    /\ workerLevels' = LevelsOf(workers', pool)
    /\ isInitialized' = TRUE
    /\ statuses' = Append(statuses, [text |-> "Multi-Agent Swarm Ready", n |-> 0])
    /\ initPc' = IF Len(awaiting) > 1 THEN "awaiting" ELSE "done"
    /\ UNCHANGED <<pool, workerConfigs, errors>>
    /\ UNCHANGED <<enabledLayers, stopped, inits, statsVars>>
    /\ UNCHANGED <<segments, currentPartial, sinkSegments, sinkPartial, lastEmits,
                   lastOp, lastSeg, prevSegments, delivered, commits, ops, sent>>
    /\ UNCHANGED <<workerVars, cascadeVars, orderVars, fnVars, loadVars, onnxVars,
                   streamVars>>

\* stop(): every worker of this.workers is terminated, the list emptied
Stop ==
    /\ workers # <<>> \/ isInitialized \/ ~stopped
    /\ pool' = [i \in 1 .. Len(pool) |->
                   IF \E k \in 1 .. Len(workers) : workers[k] = i
                   THEN [pool[i] EXCEPT !.phase = "terminated"]
                   ELSE pool[i]]
    /\ workers' = <<>>
    /\ workerLevels' = {}
    /\ isInitialized' = FALSE
    /\ stopped' = TRUE
    /\ timingStats' = initializeTimingStats(enabledLayers)
    /\ timed' = NoTimed
    /\ UNCHANGED <<initPc, workerConfigs, statuses, errors>>
    /\ UNCHANGED <<enabledLayers, awaiting, inits>>
    /\ UNCHANGED <<segments, currentPartial, sinkSegments, sinkPartial, lastEmits,
                   lastOp, lastSeg, prevSegments, delivered, commits, ops, sent>>
    /\ UNCHANGED <<workerVars, cascadeVars, orderVars, fnVars, loadVars, onnxVars,
                   streamVars>>

\* A worker's onmessage for the next message of its queue: configure, then init
PoolRecv ==
    /\ \E i \in 1 .. Len(pool) :
         /\ pool[i].phase \in {"new", "configured"}
         /\ pool[i].read < Len(pool[i].inbox)
         /\ LET msg == pool[i].inbox[pool[i].read + 1] IN
              pool' = [pool EXCEPT
                         ![i].read = @ + 1,
                         ![i].phase = IF msg.type = "configure" THEN "configured"
                                      ELSE "loading",
                         ![i].config = IF msg.type = "configure"
                                       THEN ConfigFor(msg.config.level) ELSE @,
                         ![i].args = IF msg.type = "init" THEN msg ELSE @]
    /\ UNCHANGED <<isInitialized, initPc, workers, workerConfigs, statuses, errors>>
    /\ UNCHANGED <<mergeVars, workerVars, cascadeVars, orderVars, fnVars, extraVars>>

\* A worker's initModel() completes: it posts the status "Ready", which
\* handleWorkerMessage ignores
PoolLoadDone ==
    /\ \E i \in 1 .. Len(pool) :
         /\ pool[i].phase = "loading"
         /\ pool' = [pool EXCEPT ![i].phase = "ready"]
    /\ UNCHANGED <<isInitialized, initPc, workers, workerConfigs, statuses, errors>>
    /\ UNCHANGED <<mergeVars, workerVars, cascadeVars, orderVars, fnVars, extraVars>>

\* A worker's initModel() throws, after the fallback if it had one: onmessage
\* rejects inside the worker, nothing is posted, and the Transcriber keeps
\* the worker in this.workers
PoolLoadFail ==
    /\ \E i \in 1 .. Len(pool) :
         /\ pool[i].phase = "loading"
         /\ pool' = [pool EXCEPT ![i].phase = "failed"]
    /\ UNCHANGED <<isInitialized, initPc, workers, workerConfigs, statuses, errors>>
    /\ UNCHANGED <<mergeVars, workerVars, cascadeVars, orderVars, fnVars, extraVars>>

\* The position in this.workers of the first worker of a level, or 0:
\* this.workers.findIndex((w) => w.level === level) + 1
FindIndex(ws, p, level) ==
    IF \E k \in 1 .. Len(ws) : p[ws[k]].level = level
    THEN CHOOSE k \in 1 .. Len(ws) :
            /\ p[ws[k]].level = level
            /\ \A j \in 1 .. k - 1 : p[ws[j]].level # level
    ELSE 0

\* worker.onerror -> handleWorkerError(error, worker) -> restartWorker(level)
WorkerError ==
    /\ initPc = "done"
    /\ errors < MaxErrors
    /\ \E i \in 1 .. Len(pool) :
         /\ pool[i].phase # "terminated"
         /\ LET level == pool[i].level
                old == FindIndex(workers, pool, level)
                stored == workerConfigs[level]
                kept == IF old > 0 THEN RemoveAt(workers, old) ELSE workers
                ended == IF old > 0
                         THEN [pool EXCEPT ![workers[old]].phase = "terminated"]
                         ELSE pool
            IN  IF stored = NoConfig
                THEN /\ pool' = ended
                     /\ workers' = kept
                     /\ UNCHANGED statuses
                ELSE /\ pool' = Append(ended,
                                       NewWorker(level, ConfigureMsg(stored.config),
                                                 restartInitMsg(stored)))
                     /\ workers' = Append(kept, Len(pool) + 1)
                     /\ statuses' = Append(statuses, [text |-> "restarted", n |-> level])
    /\ workerLevels' = LevelsOf(workers', pool')
    /\ errors' = errors + 1
    /\ UNCHANGED <<isInitialized, initPc, workerConfigs>>
    /\ UNCHANGED <<segments, currentPartial, sinkSegments, sinkPartial, lastEmits,
                   lastOp, lastSeg, prevSegments, delivered, commits, ops, sent>>
    /\ UNCHANGED <<workerVars, cascadeVars, orderVars, fnVars, extraVars>>

\* inferenceTime of a worker's output: 0, or some milliseconds
InferenceTimes == {0, 1, 2}

\* inferenceTime of the outputs of the cascade's workers
PostedTimes == {1, 2}

\* specStats of a segment: null, or those of a verification
SpecStatsInputs ==
    {NoStats} \cup
    { SpecStatsOf(verifyDraftTokens(draftTokens, pred, threw))
      : draftTokens \in {<<1>>, <<1, 2>>, <<1, 2, 1>>},
        pred \in {<<1, 2, 1>>, <<2, 2, 2>>},
        threw \in BOOLEAN }

\* handleWorkerMessage(n) for a segment n with inferenceTime t and specStats
\* s: the statistics, then the tokens forwarded and mergeSegment. Reading the
\* entry of a level that has none throws before anything is changed.
TimedSegmentHandled(n, t, s) ==
    /\ timed' = IF t # 0 THEN [timed EXCEPT ![n.level] = Append(@, t)] ELSE timed
    /\ IF statsThrows(timingStats, n.level, t, s)
       THEN UNCHANGED <<timingStats, mergeVars>>
       ELSE /\ timingStats' =
                  IF n.level \in DOMAIN timingStats
                  THEN [timingStats EXCEPT
                           ![n.level] = specStatsAdded(timeAdded(@, t), s)]
                  ELSE timingStats
            /\ SegmentHandled(n)

\* handleWorkerMessage for a partial (level 1) with a text and inferenceTime
\* t: const stats = this.timingStats[1]
TimedPartialHandled(text, t) ==
    /\ timed' = IF t # 0 THEN [timed EXCEPT ![1] = Append(@, t)] ELSE timed
    /\ IF statsThrows(timingStats, 1, t, NoStats)
       THEN UNCHANGED <<timingStats, mergeVars>>
       ELSE /\ timingStats' =
                  IF 1 \in DOMAIN timingStats
                  THEN [timingStats EXCEPT ![1] = timeAdded(@, t)]
                  ELSE timingStats
            /\ PartialHandled(text)

\* worker.onmessage for an output of a worker of this.workers that process()
\* has sent audio to: the continuous tier posts partials, the chunk tiers
\* segments, tiers above the first with specStats when they held a draft
HandleWorkerMessage ==
    /\ ops < MaxOutputs
    /\ \A level \in Tiers : Len(timed[level]) < MaxOutputs
    /\ isInitialized
    /\ awaiting = <<>>
    /\ \E k \in 1 .. Len(workers), t \in InferenceTimes :
         LET w == pool[workers[k]] IN
         /\ w.phase # "terminated"
         /\ IF mode(w.level) = "continuous"
            THEN TimedPartialHandled("a", t)
            ELSE \E s \in SpecStatsInputs :
                    TimedSegmentHandled(SegmentMsg(w.level, 0, "a"), t, s)
    /\ UNCHANGED nonStatsVars

\* enabledLayers of the init calls made while outputs are handled: the
\* continuous tier, a chunk tier that verifies drafts, or both
StatsLayerInputs == {{1}, {2}, {1, 2}}

\* An init call, the first or a later one
StatsInit ==
    /\ ~isInitialized
    /\ inits < MaxInits
    /\ \E layers \in StatsLayerInputs :
          InitCalled(layers, CHOOSE args \in StartArgs : args.backend = "")

\* A worker error, once
StatsWorkerError ==
    /\ errors < MaxStatsErrors
    /\ WorkerError

\* commitAndReset between the outputs
StatsCommit ==
    /\ ops < MaxOutputs
    /\ CommitDone
    /\ UNCHANGED nonStatsVars

-----------------------------------------------------------------------------
(* Segments of the chunk tiers reaching the Transcriber in any order *)

\* Every segment the chunk tiers emit for the session: tier `level` emits its
\* k-th chunk once.
AllEmissions ==
    UNION { { SegmentMsg(level, k, "a") : k \in ChunkIndices(level) } :
               level \in ChunkLevels }

\* Nothing is on its way to the Transcriber.
NoEmissions ==
    /\ emitted = {}
    /\ todo = {}

\* worker.onmessage of the Transcriber for a segment on its way: each tier's
\* segments arrive in the order the tier emitted them, the tiers in any order
Arrive ==
    \E n \in todo :
        /\ \A m \in todo : m.level = n.level => n.start <= m.start
        /\ SegmentHandled(n)
        /\ todo' = todo \ {n}
        /\ UNCHANGED emitted
        /\ UNCHANGED <<workerVars, cascadeVars, lifeVars, fnVars, extraVars>>

-----------------------------------------------------------------------------
(* The cascade L1 -> L2: the Transcriber with its two workers, each worker a
   thread of its own. The worker variables hold the worker that is running,
   peer holds the other. *)

\* The levels of the cascade's workers.
CascadeLevels == {1, 2}

\* The audio fed to the cascade: 5.0 s.
FedSamples == 5 * sampleRate

\* The audio source's buffer sizes in the cascade: 1 s, or all 5 s at once.
CascadePushSizes == {sampleRate, 5 * sampleRate}

\* The state of the worker running.
WorkerState ==
    [phase |-> phase, config |-> config, audioBuffer |-> audioBuffer,
     isProcessing |-> isProcessing, processedSamples |-> processedSamples,
     currentDraftTokens |-> currentDraftTokens, inflight |-> inflight,
     pendingTimers |-> pendingTimers, posted |-> posted, pushed |-> pushed,
     ctl |-> ctl, lostSamples |-> lostSamples, lastCleared |-> lastCleared,
     lastTrim |-> lastTrim, lastText |-> lastText]

\* A worker of the given level whose model has loaded, before any audio.
ReadyWorker(level) ==
    [phase |-> "ready", config |-> ConfigFor(level), audioBuffer |-> EmptyBuffer,
     isProcessing |-> FALSE, processedSamples |-> 0,
     currentDraftTokens |-> <<>>, inflight |-> <<>>,
     pendingTimers |-> 0, posted |-> <<>>, pushed |-> 0,
     ctl |-> 0, lostSamples |-> 0,
     lastCleared |-> [n |-> 0, samples |-> 0, tokens |-> 0],
     lastTrim |-> NoTrim, lastText |-> NoText]

\* The worker variables hold the state w.
Running(w) ==
    /\ phase = w.phase
    /\ config = w.config
    /\ audioBuffer = w.audioBuffer
    /\ isProcessing = w.isProcessing
    /\ processedSamples = w.processedSamples
    /\ currentDraftTokens = w.currentDraftTokens
    /\ inflight = w.inflight
    /\ pendingTimers = w.pendingTimers
    /\ posted = w.posted
    /\ pushed = w.pushed
    /\ ctl = w.ctl
    /\ lostSamples = w.lostSamples
    /\ lastCleared = w.lastCleared
    /\ lastTrim = w.lastTrim
    /\ lastText = w.lastText

\* No cascade: one worker, fed by the environment.
CascadeIdle ==
    /\ peer = ReadyWorker(1)
    /\ fed = 0
    /\ handled = [l \in CascadeLevels |-> 0]
    /\ taken = [l \in CascadeLevels |-> 0]
    /\ commitFed = <<>>

\* The messages the Transcriber posted to the worker of the given level.
SentTo(level) == SelectSeq(sent, LAMBDA m : m.to = level)

\* Transcriber.process(audioChunk) past if (!this.isInitialized) return: the
\* chunk is posted to every worker
Process ==
    /\ isInitialized
    /\ fed < FedSamples
    /\ fed' = fed + pushSize
    /\ UNCHANGED <<peer, handled, taken, commitFed>>
    /\ UNCHANGED <<mergeVars, workerVars, lifeVars, orderVars, fnVars, extraVars>>

\* The other worker's thread runs.
SwitchWorker ==
    /\ peer' = WorkerState
    /\ phase' = peer.phase
    /\ config' = peer.config
    /\ audioBuffer' = peer.audioBuffer
    /\ isProcessing' = peer.isProcessing
    /\ processedSamples' = peer.processedSamples
    /\ currentDraftTokens' = peer.currentDraftTokens
    /\ inflight' = peer.inflight
    /\ pendingTimers' = peer.pendingTimers
    /\ posted' = peer.posted
    /\ pushed' = peer.pushed
    /\ ctl' = peer.ctl
    /\ lostSamples' = peer.lostSamples
    /\ lastCleared' = peer.lastCleared
    /\ lastTrim' = peer.lastTrim
    /\ lastText' = peer.lastText
    /\ UNCHANGED <<pushSize, fed, handled, taken, commitFed>>
    /\ UNCHANGED <<mergeVars, lifeVars, orderVars, fnVars, extraVars>>

\* The samples of the audio messages that are in the running worker's queue
\* before the next message of another type: a commit is posted after the
\* audio broadcast before it.
AudioQueued ==
    IF lastCleared.n < Len(commitFed) THEN commitFed[lastCleared.n + 1] ELSE fed

\* onmessage, type "audio", for the next chunk the Transcriber broadcast
RecvBroadcastAudio ==
    /\ Serving
    /\ pushed < AudioQueued
    /\ AudioHandled
    /\ UNCHANGED nonWorkerVars

\* worker.onmessage of the Transcriber: handleWorkerMessage for the next
\* message the running worker posted. The message's inferenceTime, the time
\* the worker measured, is drawn here: nothing of the worker depends on it.
HandlePosted ==
    /\ handled[config.level] < Len(posted)
    /\ LET msg == posted[handled[config.level] + 1] IN
         IF msg.type = "partial"
         THEN \E t \in PostedTimes : TimedPartialHandled(msg.text, t)
         ELSE IF msg.type = "segment"
         THEN \E t \in PostedTimes :
                 TimedSegmentHandled([start |-> msg.start, end |-> msg.end,
                                      text |-> msg.text, level |-> msg.level,
                                      isSeparator |-> FALSE],
                                     t, msg.specStats)
         ELSE UNCHANGED <<mergeVars, statsVars>>
    /\ handled' = [handled EXCEPT ![config.level] = @ + 1]
    /\ UNCHANGED <<peer, fed, taken, commitFed>>
    /\ UNCHANGED <<workerVars, lifeVars, orderVars, fnVars, loadVars, onnxVars, stopVars,
                   streamVars>>

\* onmessage, type "draft_tokens", for the next message the Transcriber sent
\* to the running worker
RecvSentDraftTokens ==
    /\ Serving
    /\ taken[config.level] < Len(SentTo(config.level))
    /\ LET msg == SentTo(config.level)[taken[config.level] + 1] IN
         /\ msg.type = "draft_tokens"
         /\ currentDraftTokens' =
               setDraftTokens(config.level, currentDraftTokens, msg.tokens)
    /\ taken' = [taken EXCEPT ![config.level] = @ + 1]
    /\ UNCHANGED <<phase, config, audioBuffer, isProcessing, processedSamples,
                   inflight, pendingTimers, posted, pushed, pushSize, ctl,
                   lostSamples, lastCleared, lastTrim, lastText>>
    /\ UNCHANGED <<peer, fed, handled, commitFed>>
    /\ UNCHANGED <<mergeVars, lifeVars, orderVars, fnVars, extraVars>>

\* onmessage, type "commit", for the commit the Transcriber broadcast: it is
\* handled after the audio messages posted before it
RecvSentCommit ==
    /\ Serving
    /\ taken[config.level] < Len(SentTo(config.level))
    /\ SentTo(config.level)[taken[config.level] + 1].type = "commit"
    /\ pushed = AudioQueued
    /\ CommitHandled
    /\ taken' = [taken EXCEPT ![config.level] = @ + 1]
    /\ UNCHANGED <<peer, fed, handled, commitFed>>
    /\ UNCHANGED <<mergeVars, lifeVars, orderVars, fnVars, extraVars>>

\* commitAndReset while the cascade runs, within the first MaxCommitSeconds
\* seconds of audio
CascadeCommit ==
    /\ commits < MaxCascadeCommits
    /\ fed <= MaxCommitSeconds * sampleRate
    /\ CommitDone
    /\ commitFed' = Append(commitFed, fed)
    /\ UNCHANGED <<peer, fed, handled, taken>>
    /\ UNCHANGED <<workerVars, lifeVars, orderVars, fnVars, loadVars, onnxVars, stopVars,
                   streamVars>>

-----------------------------------------------------------------------------
(* The draft-token functions of the worker, applied to arguments of their own *)

\* No function is being applied.
NoCall ==
    [fn |-> "none", level |-> 0, current |-> <<>>, tokens |-> <<>>, pred |-> <<>>,
     threw |-> FALSE, done |-> FALSE, draft |-> <<>>,
     verified |-> verifyDraftTokens(<<>>, <<>>, TRUE)]

\* Seq(S) up to length n
RECURSIVE SeqsUpTo(_, _)
SeqsUpTo(S, n) ==
    IF n = 0 THEN {<<>>}
    ELSE LET shorter == SeqsUpTo(S, n - 1)
         IN  shorter \cup {Append(q, x) : q \in shorter, x \in S}

\* Token values around the header range 50257 .. 50363: text tokens, the
\* last text token, header tokens, <|notimestamps|>, the first timestamp.
TokenValues == {1, 50256, 50257, 50363, 50364}

\* tokens of a draft_tokens message
DraftTokenInputs == SeqsUpTo(TokenValues, MaxTokens) \cup DraftInputs

\* currentDraftTokens when the message arrives
DraftCurrentInputs == {<<>>, <<50258, 1>>} \cup DraftInputs

\* The tiers that have an upstream tier in allConfigs.
DownstreamLevels == {2, 3, 4}

SetDraftTokensCalls ==
    { [NoCall EXCEPT !.fn = "setDraftTokens", !.level = level,
                     !.current = current, !.tokens = tokens]
      : level \in DownstreamLevels, current \in DraftCurrentInputs,
        tokens \in DraftTokenInputs }

\* Drafts handed to verifyDraftTokens (processChunk passes a non-empty one)
\* and the argmax predictions of the model, one per position of the draft.
VerifyTokenValues == {1, 2}
VerifyDrafts == SeqsUpTo(VerifyTokenValues, MaxTokens + 1) \ {<<>>}

VerifyDraftTokensCalls ==
    { [NoCall EXCEPT !.fn = "verifyDraftTokens", !.tokens = draftTokens,
                     !.pred = pred, !.threw = threw]
      : draftTokens \in VerifyDrafts,
        pred \in SeqsUpTo(VerifyTokenValues, MaxTokens + 1),
        threw \in BOOLEAN }

\* onmessage, type "draft_tokens", on a worker of the call's level holding
\* the call's currentDraftTokens
ApplySetDraftTokens ==
    /\ call.fn = "setDraftTokens"
    /\ ~call.done
    /\ call' = [call EXCEPT !.done = TRUE,
                            !.draft = setDraftTokens(call.level, call.current, call.tokens)]
    /\ UNCHANGED <<mergeVars, workerVars, cascadeVars, lifeVars, orderVars, extraVars>>

\* verifyDraftTokens(model, input_features, draftTokens)
ApplyVerifyDraftTokens ==
    /\ call.fn = "verifyDraftTokens"
    /\ ~call.done
    /\ call' = [call EXCEPT !.done = TRUE,
                            !.verified = verifyDraftTokens(call.tokens, call.pred, call.threw)]
    /\ UNCHANGED <<mergeVars, workerVars, cascadeVars, lifeVars, orderVars, extraVars>>

-----------------------------------------------------------------------------
(* The streaming worker: self.onmessage and its message queue *)

\* The state of the module when it has been evaluated.
StreamInit ==
    /\ isHandlingMessage = FALSE
    /\ messageQueue = <<>>
    /\ running = <<>>
    /\ streamPosted = <<"worker_ready">>
    /\ started = <<>>
    /\ finished = <<>>
    /\ arrivals = 0
    /\ wasQueued = 0
    /\ pipeline = 0
    /\ newAudio = 0

\* event.data.type: the three cases of the switch, and a type it does not know
MessageTypes == {"load", "generate", "add_audio", "other"}

\* The cases of the switch that await a handler.
Awaited == {"load", "generate", "add_audio"}

\* data.audio.length of an add_audio message: a quarter of a second, so that
\* a second chunk makes up minNewAudioSamples
AudioLengths == {4000}

\* The message events delivered: every one carries a data object, an
\* add_audio one with audio of samples samples.
MessageInputs ==
    { [type |-> type, samples |-> 0] : type \in MessageTypes \ {"add_audio"} }
    \cup { [type |-> "add_audio", samples |-> n] : n \in AudioLengths }

\* processStreamingAudio: const minNewAudioSamples = 16000 * 0.5
minNewAudioSamples == 8000

\* getInstance: tokenizer, processor and model are loaded in this order, each
\* if (!this.x)
PipelineComponents == <<"tokenizer", "processor", "model">>

\* What a handler posts before its first await: handleLoad "loading",
\* handleGenerate "start", handleAddAudio nothing.
PostedAtStart(type) ==
    CASE type = "load" -> <<"loading">>
      [] type = "generate" -> <<"start">>
      [] OTHER -> <<>>

\* A handler after getInstance has returned: handleLoad posts "loading"
\* (warming up) and awaits processor(dummySpectrogram); processAudio and
\* processStreamingAudio await processor(audio).
AfterGetInstance(handler) ==
    IF handler.type = "load"
    THEN [posts |-> <<"loading">>, pc |-> "warmup"]
    ELSE [posts |-> <<>>, pc |-> "features"]

\* A handler at await getInstance(): the await of the first component that is
\* not set, or past it in the same task
AtGetInstance(handler, loaded) ==
    IF loaded < Len(PipelineComponents)
    THEN [posts |-> <<>>, pc |-> PipelineComponents[loaded + 1]]
    ELSE AfterGetInstance(handler)

\* What a handler posts last when nothing rejected: "ready", "complete";
\* handleAddAudio posts "complete" if (result), and the text is non-empty
\* only if the streamer has passed text on.
Outcomes(handler) ==
    CASE handler.type = "load" -> {<<"ready">>}
      [] handler.type = "generate" -> {<<"complete">>}
      [] OTHER -> IF handler.updates > 0 THEN {<<"complete">>, <<>>} ELSE {<<>>}

\* What the catch of a handler posts: "error"; handleAddAudio posts nothing
\* for the two messages it ignores.
Failures(handler) ==
    IF handler.type = "add_audio" THEN {<<"error">>, <<>>} ELSE {<<"error">>}

\* The module's variables as one value: what the calls below take and return.
StreamState ==
    [handling |-> isHandlingMessage, queue |-> messageQueue, running |-> running,
     posted |-> streamPosted, started |-> started, finished |-> finished,
     pipeline |-> pipeline, newAudio |-> newAudio]

\* Mutant of shift: the message queued last is taken.
shiftLast(queue) ==
    [next |-> queue[Len(queue)], rest |-> SubSeq(queue, 1, Len(queue) - 1)]

\* const nextMessage = messageQueue.shift()
shift(queue) == [next |-> Head(queue), rest |-> Tail(queue)]

RECURSIVE onmessage(_, _)
RECURSIVE processMessageQueue(_)

\* The finally block of self.onmessage: the flag is cleared and
\* processMessageQueue() called
onmessageFinally(st, event) ==
    processMessageQueue([st EXCEPT !.handling = FALSE,
                                   !.finished = Append(@, event.id)])

\* The handler of a handler up to its first await that does not return in the
\* same task.  handleAddAudio adds the chunk and returns at once when
\* processStreamingAudio has less than minNewAudioSamples of new audio.
handlerCalled(st, event) ==
    LET handler == [id |-> event.id, type |-> event.type, samples |-> event.samples,
                 pc |-> "", progress |-> 0, updates |-> 0]
        grown == st.newAudio + event.samples
        at == AtGetInstance(handler, st.pipeline)
        st1 == [st EXCEPT !.posted = @ \o PostedAtStart(event.type) \o at.posts,
                          !.running = Append(@, [handler EXCEPT !.pc = at.pc])]
    IN  IF event.type # "add_audio" THEN st1
        ELSE IF grown < minNewAudioSamples
        THEN onmessageFinally([st EXCEPT !.newAudio = grown], event)
        ELSE [st1 EXCEPT !.newAudio = grown]

\* self.onmessage(event), up to the await of a handler that is suspended or,
\* for a type the switch does not know, through the finally block
onmessage(st, event) ==
    IF st.handling
    THEN [st EXCEPT !.queue = Append(@, event)]
    ELSE IF event.type \in Awaited
    THEN handlerCalled([st EXCEPT !.handling = TRUE,
                                  !.started = Append(@, event.id)],
                       event)
    ELSE onmessageFinally([st EXCEPT !.handling = TRUE,
                                     !.started = Append(@, event.id),
                                     !.posted = Append(@, "error")],
                          event)

\* processMessageQueue(): self.onmessage(nextMessage) runs up to its await
\* before this handler returns
processMessageQueue(st) ==
    IF Len(st.queue) > 0 /\ ~st.handling
    THEN onmessage([st EXCEPT !.queue = shift(st.queue).rest], shift(st.queue).next)
    ELSE st

\* The module's variables after a call that returned st.
StreamBecomes(st) ==
    /\ isHandlingMessage' = st.handling
    /\ messageQueue' = st.queue
    /\ running' = st.running
    /\ streamPosted' = st.posted
    /\ started' = st.started
    /\ finished' = st.finished
    /\ pipeline' = st.pipeline
    /\ newAudio' = st.newAudio

\* A message event is delivered: self.onmessage(event)
StreamRecv ==
    /\ arrivals < MaxMessages
    /\ \E input \in MessageInputs :
         LET event == [id |-> arrivals + 1, type |-> input.type,
                       samples |-> input.samples] IN
         /\ StreamBecomes(onmessage(StreamState, event))
         /\ wasQueued' = IF isHandlingMessage THEN wasQueued + 1 ELSE wasQueued
    /\ arrivals' = arrivals + 1
    /\ UNCHANGED nonStreamVars

\* createProgressCallback: the library calls handleLoad's progress callback
\* while a from_pretrained is awaited, and "loading" is posted
StreamProgress ==
    /\ \E i \in 1 .. Len(running) :
         /\ running[i].type = "load"
         /\ running[i].pc \in {"tokenizer", "processor", "model"}
         /\ running[i].progress < MaxProgress
         /\ running' = [running EXCEPT ![i].progress = @ + 1]
         /\ streamPosted' = Append(streamPosted, "loading")
    /\ UNCHANGED <<isHandlingMessage, messageQueue, started, finished, arrivals,
                   wasQueued, pipeline, newAudio>>
    /\ UNCHANGED nonStreamVars

\* getInstance: the from_pretrained awaited resolves; the next component is
\* awaited or getInstance returns to the handler
StreamComponentLoaded ==
    /\ \E i \in 1 .. Len(running) :
         /\ running[i].pc \in {"tokenizer", "processor", "model"}
         /\ LET at == AtGetInstance(running[i], pipeline + 1) IN
            /\ running' = [running EXCEPT ![i].pc = at.pc]
            /\ streamPosted' = streamPosted \o at.posts
    /\ pipeline' = pipeline + 1
    /\ UNCHANGED <<isHandlingMessage, messageQueue, started, finished, arrivals,
                   wasQueued, newAudio>>
    /\ UNCHANGED nonStreamVars

\* await processor(...) returns and model.generate is awaited
StreamFeaturesDone ==
    /\ \E i \in 1 .. Len(running) :
         /\ running[i].pc \in {"warmup", "features"}
         /\ running' = [running EXCEPT
                          ![i].pc = IF @ = "warmup" THEN "warmupGenerate"
                                    ELSE "generate"]
    /\ UNCHANGED <<isHandlingMessage, messageQueue, streamPosted, started, finished,
                   arrivals, wasQueued, pipeline, newAudio>>
    /\ UNCHANGED nonStreamVars

\* The streamer's callback_function passes text on during model.generate:
\* onUpdate posts "update"
StreamUpdate ==
    /\ \E i \in 1 .. Len(running) :
         /\ running[i].pc = "generate"
         /\ running[i].updates < MaxUpdates
         /\ running' = [running EXCEPT ![i].updates = @ + 1]
         /\ streamPosted' = Append(streamPosted, "update")
    /\ UNCHANGED <<isHandlingMessage, messageQueue, started, finished, arrivals,
                   wasQueued, pipeline, newAudio>>
    /\ UNCHANGED nonStreamVars

\* model.generate returns: processStreamingAudio sets lastProcessedLength, the
\* handler posts its last message, then the finally block of self.onmessage
StreamHandlerDone ==
    /\ \E i \in 1 .. Len(running) :
         /\ running[i].pc \in {"warmupGenerate", "generate"}
         /\ \E last \in Outcomes(running[i]) :
              StreamBecomes(onmessageFinally(
                  [StreamState EXCEPT
                      !.running = RemoveAt(running, i),
                      !.posted = @ \o last,
                      !.newAudio = IF running[i].type = "add_audio" THEN 0 ELSE @],
                  running[i]))
    /\ UNCHANGED <<arrivals, wasQueued>>
    /\ UNCHANGED nonStreamVars

\* The await a handler is at rejects: its catch posts, then the finally block
\* of self.onmessage
StreamHandlerFail ==
    /\ \E i \in 1 .. Len(running) :
         \E last \in Failures(running[i]) :
            StreamBecomes(onmessageFinally(
                [StreamState EXCEPT !.running = RemoveAt(running, i),
                                    !.posted = @ \o last],
                running[i]))
    /\ UNCHANGED <<arrivals, wasQueued>>
    /\ UNCHANGED nonStreamVars

\* An await of the handler in progress returns.
StreamAwaitDone == StreamComponentLoaded \/ StreamFeaturesDone \/ StreamHandlerDone

-----------------------------------------------------------------------------
(* Specifications *)

\* The merge engine alone: the worker stays as constructed.
InitMerge ==
    /\ MergeInit
    /\ OrchInit(Levels)
    /\ WorkerInit
    /\ Unloaded("webgpu")
    /\ OnnxInit
    /\ StreamInit
    /\ CascadeIdle
    /\ Initialized(Levels)
    /\ NoEmissions
    /\ pushSize = 3 * sampleRate
    /\ call = NoCall

NextMerge == HandleSegment \/ CommitAndReset

SpecMerge == InitMerge /\ [][NextMerge]_vars

\* One tier worker alone whose model loading may fail, for every backend of
\* the init message; no drafts, commits or failing inferences.
InitLoad ==
    /\ MergeInit
    /\ OrchInit(Levels)
    /\ WorkerInit
    /\ \E b \in BackendInputs, q \in QuantInputs : UnloadedWith(b, q)
    /\ OnnxInit
    /\ StreamInit
    /\ CascadeIdle
    /\ Constructed
    /\ NoEmissions
    /\ pushSize \in PushSizes
    /\ call = NoCall

NextLoad ==
    \/ RecvConfigure
    \/ RecvInit
    \/ LoadProgress
    \/ ComponentLoaded
    \/ QuantValidated
    \/ LoadDone
    \/ LoadFail
    \/ FallbackLoaded
    \/ FallbackDone
    \/ FallbackFail
    \/ RecvAudio
    \/ TimerFire
    \/ FeaturesDone
    \/ GenerateDone
    \/ ChunkDecodeDone
    \/ ContinuousDecodeDone

SpecLoad == InitLoad /\ [][NextLoad]_vars

\* One ONNX tier worker alone, fed by the environment.
InitOnnx ==
    /\ MergeInit
    /\ OrchInit(Levels)
    /\ WorkerInit
    /\ Unloaded("webgpu")
    /\ OnnxInit
    /\ StreamInit
    /\ CascadeIdle
    /\ Constructed
    /\ NoEmissions
    /\ pushSize \in PushSizes
    /\ call = NoCall

NextOnnx ==
    \/ OnnxRecvConfigure
    \/ OnnxRecvInit
    \/ OnnxLoadProgress
    \/ OnnxComponentLoaded
    \/ OnnxInitDone
    \/ OnnxWarmupFeaturesDone
    \/ OnnxWarmupDone
    \/ OnnxInitFail
    \/ OnnxRecvAudio
    \/ OnnxRecvCommit
    \/ OnnxFeaturesDone
    \/ OnnxChunkDone
    \/ OnnxContinuousDone
    \/ OnnxTranscribeFail

SpecOnnx == InitOnnx /\ [][NextOnnx]_vars

\* One tier worker alone: the Transcriber stays as constructed.
InitWorker ==
    /\ MergeInit
    /\ OrchInit(Levels)
    /\ WorkerInit
    /\ Unloaded("webgpu")
    /\ OnnxInit
    /\ StreamInit
    /\ CascadeIdle
    /\ Constructed
    /\ NoEmissions
    /\ pushSize \in PushSizes
    /\ call = NoCall

SpecWorker == InitWorker /\ [][NextWorker]_vars

\* One tier worker whose awaits all return: no commits, drafts or errors.
\* The event loop runs every task that is ready (a timer callback, the
\* continuation of an await that has settled); nothing obliges the audio
\* source to send another message.
NextDrain ==
    \/ RecvConfigure
    \/ RecvInit
    \/ ComponentLoaded
    \/ LoadDone
    \/ RecvAudio
    \/ TimerFire
    \/ FeaturesDone
    \/ GenerateDone
    \/ ChunkDecodeDone
    \/ ContinuousDecodeDone

FairDrain ==
    /\ WF_vars(RecvConfigure)
    /\ WF_vars(RecvInit)
    /\ WF_vars(ComponentLoaded)
    /\ WF_vars(LoadDone)
    /\ WF_vars(TimerFire)
    /\ WF_vars(FeaturesDone)
    /\ WF_vars(GenerateDone)
    /\ WF_vars(ChunkDecodeDone)
    /\ WF_vars(ContinuousDecodeDone)

SpecDrain == InitWorker /\ [][NextDrain]_vars /\ FairDrain

\* The Transcriber's handling of its workers' outputs, for every set of
\* enabled tiers.
InitOrch ==
    /\ MergeInit
    /\ \E levels \in (SUBSET Levels) \ {{}} : OrchInit(levels) /\ Initialized(levels)
    /\ WorkerInit
    /\ Unloaded("webgpu")
    /\ OnnxInit
    /\ StreamInit
    /\ CascadeIdle
    /\ NoEmissions
    /\ pushSize = 3 * sampleRate
    /\ call = NoCall

NextOrch == HandleFirstSegment \/ HandlePartial \/ CommitAndReset

SpecOrch == InitOrch /\ [][NextOrch]_vars

\* The Transcriber from its construction: init, its workers loading, worker
\* errors.
InitLife ==
    /\ MergeInit
    /\ OrchInit({})
    /\ WorkerInit
    /\ Unloaded("webgpu")
    /\ OnnxInit
    /\ StreamInit
    /\ CascadeIdle
    /\ Constructed
    /\ NoEmissions
    /\ pushSize = 3 * sampleRate
    /\ call = NoCall

NextLife ==
    Init \/ InitResume \/ PoolRecv \/ PoolLoadDone \/ PoolLoadFail \/ WorkerError

SpecLife == InitLife /\ [][NextLife]_vars

\* The Transcriber's worker list under init calls, stop and worker errors;
\* the workers' own progress is left out.
NextStop == Init \/ InitAgain \/ InitResume \/ Stop \/ WorkerError

SpecStop == InitLife /\ [][NextStop]_vars

\* The streaming worker alone; an await of a handler that does not reject
\* returns.
NextStream ==
    \/ StreamRecv
    \/ StreamProgress
    \/ StreamComponentLoaded
    \/ StreamFeaturesDone
    \/ StreamUpdate
    \/ StreamHandlerDone
    \/ StreamHandlerFail

SpecStream == InitMerge /\ [][NextStream]_vars /\ WF_vars(StreamAwaitDone)

\* The streaming worker's message queue: the library calls no progress
\* callback and the streamer passes no text on.
NextQueue ==
    \/ StreamRecv
    \/ StreamComponentLoaded
    \/ StreamFeaturesDone
    \/ StreamHandlerDone
    \/ StreamHandlerFail

SpecQueue == InitMerge /\ [][NextQueue]_vars /\ WF_vars(StreamAwaitDone)

\* The timing statistics under the outputs of the listed workers, commits,
\* init calls, stop and worker errors.
NextStats ==
    \/ StatsInit
    \/ InitResume
    \/ Stop
    \/ StatsWorkerError
    \/ HandleWorkerMessage
    \/ StatsCommit

SpecStats == InitLife /\ [][NextStats]_vars

\* The merge engine given a set of segments of the chunk tiers, in every
\* arrival order that keeps each tier's own order.
InitOrder ==
    /\ MergeInit
    /\ OrchInit(Levels)
    /\ WorkerInit
    /\ Unloaded("webgpu")
    /\ OnnxInit
    /\ StreamInit
    /\ CascadeIdle
    /\ Initialized(Levels)
    /\ pushSize = 3 * sampleRate
    /\ emitted \in SUBSET AllEmissions
    /\ todo = emitted
    /\ call = NoCall

NextOrder == Arrive

SpecOrder == InitOrder /\ [][NextOrder]_vars

\* The continuous tier L1 on its own, its model loaded, fed audio in pushes
\* of 0.1 s.
InitSteady ==
    /\ MergeInit
    /\ OrchInit(Levels)
    /\ Running(ReadyWorker(1))
    /\ Loaded("webgpu")
    /\ OnnxInit
    /\ StreamInit
    /\ pushSize = SteadyPushSize
    /\ CascadeIdle
    /\ Constructed
    /\ NoEmissions
    /\ call = NoCall

NextSteady ==
    \/ RecvSteadyAudio
    \/ FeaturesDone
    \/ FeaturesFail
    \/ GenerateDone
    \/ GenerateFail
    \/ ContinuousDecodeDone
    \/ DecodeFail

SpecSteady == InitSteady /\ [][NextSteady]_vars

\* The cascade L1 -> L2 with both models loaded, fed 5.0 s of audio: the L2
\* worker runs first.
InitCascade ==
    /\ MergeInit
    /\ OrchInit(CascadeLevels)
    /\ Running(ReadyWorker(2))
    /\ Loaded("webgpu")
    /\ OnnxInit
    /\ StreamInit
    /\ pushSize \in CascadePushSizes
    /\ CascadeIdle
    /\ Initialized(CascadeLevels)
    /\ NoEmissions
    /\ call = NoCall

NextCascade ==
    \/ Process
    \/ SwitchWorker
    \/ RecvBroadcastAudio
    \/ RecvSentDraftTokens
    \/ HandlePosted
    \/ TimerFire
    \/ FeaturesDone
    \/ VerifyDone
    \/ GeneratePrefixDone
    \/ GenerateDone
    \/ ChunkDecodeDone
    \/ ContinuousDecodeDone

SpecCascade == InitCascade /\ [][NextCascade]_vars

\* The cascade with a commitAndReset at any moment of its first MaxCommitSeconds
\* seconds of audio.
NextCommit ==
    \/ NextCascade
    \/ CascadeCommit
    \/ RecvSentCommit

SpecCommit == InitCascade /\ [][NextCommit]_vars

\* The draft-token functions alone, each applied once to every argument.
InitFunctions ==
    /\ MergeInit
    /\ OrchInit(Levels)
    /\ WorkerInit
    /\ Unloaded("webgpu")
    /\ OnnxInit
    /\ StreamInit
    /\ CascadeIdle
    /\ Constructed
    /\ NoEmissions
    /\ pushSize = 3 * sampleRate
    /\ call \in {c \in SetDraftTokensCalls \cup VerifyDraftTokensCalls :
                    c.fn = "verifyDraftTokens" => Len(c.pred) = Len(c.tokens)}

NextFunctions == ApplySetDraftTokens \/ ApplyVerifyDraftTokens

SpecFunctions == InitFunctions /\ [][NextFunctions]_vars

-----------------------------------------------------------------------------
(* Properties of the merge engine *)

NonSeparators(segs) == SelectSeq(segs, LAMBDA s : ~s.isSeparator)
Separators(segs) == SelectSeq(segs, LAMBDA s : s.isSeparator)

Significant(s, n) == ~s.isSeparator /\ overlap(s, n) > OverlapThreshold

NoSignificantOverlap(segs) ==
    \A i, j \in 1 .. Len(segs) :
        (i # j /\ ~segs[i].isSeparator /\ ~segs[j].isSeparator)
            => overlap(segs[i], segs[j]) <= OverlapThreshold

\* C1: in every Transcript, the one held and the one handed to the sink, no
\* two non-separator segments overlap by more than 0.1 s.
C1_NoOverlap ==
    /\ NoSignificantOverlap(segments)
    /\ NoSignificantOverlap(sinkSegments)

\* C1 witness: a merge evicted an overlapping segment and the Transcript holds
\* several non-separator segments.
C1_Witness ==
    /\ lastOp = "merge"
    /\ Len(NonSeparators(segments)) >= 3
    /\ Len(NonSeparators(segments)) < Len(NonSeparators(prevSegments))

\* The segments of prev that the dominance rule lets survive the arrival of n.
Survivors(prev, n) ==
    SelectSeq(prev, LAMBDA s : ~(Significant(s, n) /\ s.level <= n.level))

Dominated(prev, n) ==
    \E i \in 1 .. Len(prev) : Significant(prev[i], n) /\ prev[i].level > n.level

\* C2: mergeSegment(n) removes exactly the non-separator segments that overlap
\* n by more than 0.1 s at a level <= n.level; n is left out when a
\* higher-level segment overlapping it remains and is inserted otherwise, so
\* at equal levels the newer segment replaces the older one.
C2_Dominance ==
    lastOp = "merge" =>
        IF Dominated(prevSegments, lastSeg)
        THEN segments = Survivors(prevSegments, lastSeg)
        ELSE \E i \in 1 .. Len(segments) :
                /\ segments[i] = lastSeg
                /\ RemoveAt(segments, i) = Survivors(prevSegments, lastSeg)

\* C2 witness: a segment replaced an older one of its own level and span.
C2_Witness ==
    /\ lastOp = "merge"
    /\ \E i \in 1 .. Len(prevSegments) :
          /\ Shape(prevSegments[i]) = Shape(lastSeg)
          /\ prevSegments[i].text # lastSeg.text
    /\ \E i \in 1 .. Len(segments) : segments[i] = lastSeg
    /\ Len(segments) = Len(prevSegments)

L2L4Scenario ==
    {Shape(SegmentMsg(2, k, "a")) : k \in 0 .. 3} \cup {Shape(SegmentMsg(4, 0, "a"))}

\* C3: once the L2 segments [0-5], [5-10], [10-15], [15-20] and the L4
\* segment [0-20] have all arrived, in any order, the Transcript is exactly
\* the one segment {level 4, 0-20}.
C3_L4Dominates ==
    (delivered = L2L4Scenario /\ commits = 0) =>
        /\ Len(segments) = 1
        /\ Shape(segments[1]) = Shape(SegmentMsg(4, 0, "a"))

\* C3 witness: all five have arrived and the last to arrive was an L2 segment.
C3_Witness ==
    /\ delivered = L2L4Scenario
    /\ commits = 0
    /\ lastOp = "merge"
    /\ lastSeg.level = 2

SortedByStart(segs) ==
    \A i \in 1 .. Len(segs) - 1 : segs[i].start <= segs[i + 1].start

\* C4: every Transcript handed to the sink (and the one held) is in
\* non-decreasing order of start, separators included.
C4_Sorted ==
    /\ SortedByStart(sinkSegments)
    /\ SortedByStart(segments)

\* C4 witness: a segment arrived that starts before a separator and before a
\* segment already in the Transcript.
C4_Witness ==
    /\ lastOp = "merge"
    /\ sinkSegments = segments
    /\ \E i \in 1 .. Len(segments) - 2 :
          /\ segments[i] = lastSeg
          /\ \E j \in i + 1 .. Len(segments) : segments[j].isSeparator
          /\ \E j \in i + 1 .. Len(segments) :
                ~segments[j].isSeparator /\ segments[j].start > lastSeg.start

\* C5: a mergeSegment call leaves the separators as they were, in their order;
\* what it removes is never a separator; it rejects the new segment only for a
\* non-separator segment; and a commit keeps the earlier separators in order.
C5_SeparatorsPreserved ==
    /\ lastOp = "merge" =>
          /\ Separators(segments) = Separators(prevSegments)
          /\ (\A i \in 1 .. Len(segments) : segments[i] # lastSeg)
                => \E i \in 1 .. Len(prevSegments) :
                      /\ ~prevSegments[i].isSeparator
                      /\ overlap(prevSegments[i], lastSeg) > OverlapThreshold
                      /\ prevSegments[i].level > lastSeg.level
    /\ lastOp = "commit" =>
          /\ Len(Separators(segments)) >= Len(Separators(prevSegments))
          /\ SubSeq(Separators(segments), 1, Len(Separators(prevSegments)))
                = Separators(prevSegments)

\* C5 witness: a segment spanning two separators at different times was
\* merged, evicting a segment next to them.
C5_Witness ==
    /\ lastOp = "merge"
    /\ Len(segments) < Len(prevSegments)
    /\ \E i, j \in 1 .. Len(segments) :
          /\ i < j
          /\ segments[i].isSeparator /\ segments[j].isSeparator
          /\ segments[i].start < segments[j].start
          /\ lastSeg.start < segments[i].start
          /\ segments[j].start < lastSeg.end

\* C6 as claimed: every commit appends exactly one separator pinned at the end
\* of the Transcript's last segment.
C6_Original ==
    lastOp = "commit" =>
        /\ Len(segments) = Len(prevSegments) + 1
        /\ segments[Len(segments)].isSeparator

\* C6 amended: a commit on a non-empty Transcript appends exactly one separator
\* {isSeparator, level 0, start = end = end of the last segment} at the tail and
\* changes nothing else; a commit on an empty Transcript leaves it empty.
C6_CommitSeparator ==
    lastOp = "commit" =>
        IF prevSegments = <<>>
        THEN segments = <<>>
        ELSE /\ Len(segments) = Len(prevSegments) + 1
             /\ SubSeq(segments, 1, Len(prevSegments)) = prevSegments
             /\ segments[Len(segments)] =
                   [start |-> prevSegments[Len(prevSegments)].end,
                    end |-> prevSegments[Len(prevSegments)].end,
                    text |-> "---", level |-> 0, isSeparator |-> TRUE]
             /\ sinkSegments = segments

\* C6 witness: committing [{level 4, 0-20}] gave [{level 4, 0-20}, {separator, 20-20}].
C6_Witness ==
    /\ lastOp = "commit"
    /\ Len(prevSegments) = 1
    /\ Shape(prevSegments[1]) = Shape(SegmentMsg(4, 0, "a"))
    /\ Len(segments) = 2
    /\ segments[2].isSeparator
    /\ segments[2].start = 20 * sampleRate
    /\ segments[2].end = 20 * sampleRate

-----------------------------------------------------------------------------
(* Properties of the tier worker *)

SegmentsPosted == SelectSeq(posted, LAMBDA m : m.type = "segment")

\* C7: at most one processChunk / processContinuous call is in progress at any
\* time, and isProcessing tells whether one is.
C7_OneInference ==
    /\ Len(inflight) <= 1
    /\ isProcessing <=> (Len(inflight) = 1)

\* C7 witness: an inference is suspended at model.generate while the buffer
\* already holds a further full chunk and a checkProcessing timer is pending.
C7_Witness ==
    /\ Len(inflight) = 1
    /\ inflight[1].kind = "chunk"
    /\ inflight[1].pc = "generate"
    /\ BufLen(audioBuffer) >= 2 * inflight[1].chunkSamples
    /\ pendingTimers > 0

\* C8: audio accumulates without loss: the buffer shift after an inference
\* never drops a sample that was not part of the chunk just processed.
C8_NoSampleLost == lostSamples = 0

\* C9: in a chunk tier processedSamples is the number of segments posted times
\* chunkSize * 16000, the k-th posted segment (k from 0) spans
\* [k * chunkSize, k * chunkSize + chunkSize], and each segment starts where
\* the one before it ended.
C9_ChunkGrid ==
    config.mode = "chunk" =>
        LET cs == config.chunkSize * sampleRate
            segs == SegmentsPosted
        IN  /\ processedSamples >= 0
            /\ processedSamples % cs = 0
            /\ processedSamples = Len(segs) * cs
            /\ \A k \in 1 .. Len(segs) :
                  /\ segs[k].start = (k - 1) * cs
                  /\ segs[k].end = segs[k].start + cs
            /\ \A k \in 1 .. Len(segs) - 1 : segs[k].end = segs[k + 1].start

\* C9 witness: two segments were posted, the second after a commit that
\* cleared buffered audio.
C9_Witness ==
    /\ config.mode = "chunk"
    /\ Len(posted) = 3
    /\ posted[1].type = "segment"
    /\ posted[2].type = "reset"
    /\ posted[3].type = "segment"
    /\ lastCleared.samples > 0

\* C10: handling a commit empties the audio buffer and the draft tokens, leaves
\* processedSamples, the configuration and the running inference as they
\* were, and posts one reset message.
C10_CommitFrame ==
    [][lastCleared'.n = lastCleared.n + 1 =>
          /\ audioBuffer' = EmptyBuffer
          /\ currentDraftTokens' = <<>>
          /\ processedSamples' = processedSamples
          /\ config' = config
          /\ posted' = Append(posted, ResetPosted)
          /\ UNCHANGED <<isProcessing, inflight, phase, pendingTimers>>]_vars

\* C10 witness: a commit cleared a non-empty buffer and non-empty draft tokens
\* of a worker that had already processed a chunk.
C10_Witness ==
    /\ lastCleared.n >= 1
    /\ lastCleared.samples > 0
    /\ lastCleared.tokens > 0
    /\ processedSamples > 0
    /\ audioBuffer = EmptyBuffer
    /\ currentDraftTokens = <<>>
    /\ posted[Len(posted)].type = "reset"

\* C11: a commit that reaches the worker while an inference is in progress
\* does not touch the worker's buffers before that inference has finished.
C11_CommitDeferred ==
    [][(Len(inflight) > 0 /\ lastCleared'.n = lastCleared.n + 1) =>
          /\ audioBuffer' = audioBuffer
          /\ currentDraftTokens' = currentDraftTokens]_vars

\* C14: the Verifier is invoked only by a chunk firing of a tier of level > 1
\* whose draft buffer is non-empty at that moment; a continuous firing and a
\* tier of level 0 or 1 never verify a draft or generate from a draft prefix.
C14_VerifierEligibility ==
    [][\A i \in 1 .. Len(inflight') :
          /\ (/\ inflight'[i].pc = "verify"
              /\ i <= Len(inflight)
              /\ inflight[i].pc = "features")
                => /\ inflight[i].kind = "chunk"
                   /\ config.mode = "chunk"
                   /\ config.level > 1
                   /\ Len(currentDraftTokens) > 0
                   /\ inflight'[i].draftTokens = currentDraftTokens
          /\ (\/ inflight'[i].pc \in {"verify", "generatePrefix"}
              \/ inflight'[i].validPrefix # <<>>
              \/ inflight'[i].specStats.present)
                => /\ inflight'[i].kind = "chunk"
                   /\ config'.level > 1
                   /\ Len(inflight'[i].draftTokens) > 0]_vars

\* C14 witness: a level-3 firing is verifying a draft appended from two
\* draft_tokens messages.
C14_Witness ==
    /\ Len(inflight) = 1
    /\ inflight[1].pc = "verify"
    /\ config.level = 3
    /\ Len(inflight[1].draftTokens) = 7

\* C17: a firing that generates from a decoder prompt generates from [d0] ++
\* verified, a prefix of at least two tokens of the draft it verified;
\* otherwise it generates without a prompt.
C17_PromptFromVerified ==
    \A i \in 1 .. Len(inflight) :
        LET c == inflight[i]
        IN  IF c.pc = "generatePrefix"
            THEN /\ Len(c.validPrefix) >= 2
                 /\ Len(c.validPrefix) <= Len(c.draftTokens)
                 /\ c.validPrefix = SubSeq(c.draftTokens, 1, Len(c.validPrefix))
            ELSE c.validPrefix = <<>>

-----------------------------------------------------------------------------
(* Properties of the draft-token functions *)

\* T without its maximal leading run of tokens t with 50257 <= t < 50364.
HeaderStripped(T) ==
    LET kept == {i \in 1 .. Len(T) : ~(50257 <= T[i] /\ T[i] < 50364)}
        first == IF kept = {} THEN Len(T) + 1
                 ELSE CHOOSE i \in kept : \A j \in kept : i <= j
    IN  SubSeq(T, first, Len(T))

\* C12: a draft_tokens message with tokens T leaves the draft buffer B of a
\* tier as: B when T is empty; T when the tier is L2 (its upstream is the
\* continuous tier); B ++ T when B is empty and B ++ HeaderStripped(T)
\* otherwise when the tier is L3 or L4 (its upstream is a chunk tier).
C12_DraftUpdate ==
    (call.fn = "setDraftTokens" /\ call.done) =>
        call.draft =
            IF call.tokens = <<>> THEN call.current
            ELSE IF mode(call.level - 1) = "continuous" THEN call.tokens
            ELSE IF call.current = <<>> THEN call.tokens
            ELSE call.current \o HeaderStripped(call.tokens)

\* C12 witness: [50258,50259,50359,50363,1,2] then [50258,50259,50359,50363,3]
\* on L3 gave [50258,50259,50359,50363,1,2,3].
C12_Witness ==
    /\ call.fn = "setDraftTokens"
    /\ call.done
    /\ call.level = 3
    /\ call.current = <<50258, 50259, 50359, 50363, 1, 2>>
    /\ call.tokens = <<50258, 50259, 50359, 50363, 3>>
    /\ call.draft = <<50258, 50259, 50359, 50363, 1, 2, 3>>

\* C15: after a forward pass the verified list is d1 .. dk for the largest k
\* such that the prediction at every position i < k equals d(i+1): every
\* verified token was predicted, and the token after them, if any, was not.
C15_LongestVerifiedPrefix ==
    (call.fn = "verifyDraftTokens" /\ call.done /\ ~call.threw) =>
        LET D == call.tokens
            A == call.pred
            n == Len(D) - 1
            V == call.verified.verifiedTokens
            k == Len(V)
        IN  /\ k <= n
            /\ V = SubSeq(D, 2, k + 1)
            /\ \A i \in 1 .. k : A[i] = D[i + 1]
            /\ k < n => A[k + 1] # D[k + 2]

\* C15 witness: the second draft token is verified, the third is not, and
\* the prediction after the mismatch agrees with the draft again.
C15_Witness ==
    /\ call.fn = "verifyDraftTokens"
    /\ call.done
    /\ ~call.threw
    /\ Len(call.tokens) = 4
    /\ call.pred[1] = call.tokens[2]
    /\ call.pred[2] # call.tokens[3]
    /\ call.pred[3] = call.tokens[4]
    /\ call.verified.verifiedTokens = <<call.tokens[2]>>

\* C16 as claimed: the statistics the Verifier returns satisfy
\* 0 <= verifiedCount <= n, totalCount = n and hitRate = verifiedCount /
\* max(1, n), n = |D| - 1, for every draft and every outcome of the forward
\* pass, a failed one included.
C16_Original ==
    (call.fn = "verifyDraftTokens" /\ call.done) =>
        LET n == Len(call.tokens) - 1
            r == call.verified
        IN  /\ 0 <= r.verifiedCount
            /\ r.verifiedCount <= n
            /\ r.totalCount = n
            /\ r.hitRate.den > 0
            /\ r.hitRate.num * Max(1, n) = r.verifiedCount * r.hitRate.den

\* C16 amended: 0 <= verifiedCount <= n always; after a forward pass that
\* succeeded totalCount = n and hitRate = verifiedCount / max(1, n); after one
\* that failed verifiedCount = 0, totalCount = 0, hitRate = 0 and nothing is
\* verified.
C16_VerifierStats ==
    (call.fn = "verifyDraftTokens" /\ call.done) =>
        LET n == Len(call.tokens) - 1
            r == call.verified
        IN  /\ 0 <= r.verifiedCount
            /\ r.verifiedCount <= n
            /\ r.verifiedCount = Len(r.verifiedTokens)
            /\ r.hitRate.den > 0
            /\ IF call.threw
               THEN /\ r.verifiedCount = 0
                    /\ r.totalCount = 0
                    /\ r.hitRate.num = 0
               ELSE /\ r.totalCount = n
                    /\ r.hitRate.num * Max(1, n) = r.verifiedCount * r.hitRate.den

\* C16 witness: two of three draft tokens were verified.
C16_Witness ==
    /\ call.fn = "verifyDraftTokens"
    /\ call.done
    /\ ~call.threw
    /\ call.verified.totalCount = 3
    /\ call.verified.verifiedCount = 2
    /\ call.verified.hitRate = [num |-> 2, den |-> 3]

-----------------------------------------------------------------------------
(* Properties of the continuous tier *)

\* C20: once a continuous firing has trimmed the buffer to its last
\* contextSamples, the next firing starts only when at least stepSize * 16000
\* samples have been received since that trim.
C20_StepAfterTrim ==
    [][(/\ Len(inflight') > Len(inflight)
        /\ inflight'[Len(inflight')].kind = "continuous"
        /\ lastTrim # NoTrim)
          => pushed' - lastTrim >= config.stepSize * sampleRate]_vars

\* The tier whose output the last handled message was: a partial comes from
\* the continuous tier L1, a segment from the tier of its level.
LastOutputLevel == IF lastOp' = "partial" THEN 1 ELSE lastSeg'.level

\* A worker output (partial or segment) has just been handled.
OutputHandled == ops' = ops + 1 /\ lastOp' \in {"partial", "merge"}

\* C13 as stated: for every pair of adjacent enabled tiers (u, d), every
\* partial or segment output of u that carries tokens makes the Transcriber
\* post one draft_tokens message with those tokens to d, so that L2 segments
\* reach L3 and L3 segments reach L4.
C13_Original ==
    [][(OutputHandled /\ (LastOutputLevel + 1) \in workerLevels)
          => sent' = Append(sent, DraftTokensMsg(LastOutputLevel + 1, OutputTokens))]_vars

\* C13 amended: only the hop L1 -> L2 is served. An output of L1 that carries
\* tokens makes the Transcriber post one draft_tokens message with those
\* tokens to L2 when L2 is enabled; an output of L2, L3 or L4 makes it post
\* nothing.
C13_DraftsOnlyL1ToL2 ==
    [][OutputHandled
          => sent' = IF LastOutputLevel = 1 /\ 2 \in workerLevels
                     THEN Append(sent, DraftTokensMsg(2, OutputTokens))
                     ELSE sent]_vars

\* An L1 partial was forwarded to L2, and an L2 segment has then been handled
\* with L3 enabled.
C13_Witness ==
    /\ lastOp = "merge"
    /\ lastSeg.level = 2
    /\ {1, 2, 3} \subseteq workerLevels
    /\ \E i \in 1..Len(sent) : sent[i] = DraftTokensMsg(2, OutputTokens)
    /\ \A i \in 1..Len(sent) : sent[i].to = 3 => sent[i].type = "commit"

\* The L2 worker posts its first segment in this step.
FirstL2SegmentPosted ==
    /\ config.level = 2
    /\ config'.level = 2
    /\ Len(posted') = Len(posted) + 1
    /\ posted'[Len(posted')].type = "segment"
    /\ \A k \in 1 .. Len(posted) : posted[k].type # "segment"

\* C19: with L1 and L2 active and 5.0 s of audio fed, the first segment L2
\* emits carries the specStats of a verification with totalCount > 0: in
\* every interleaving a non-empty draft from L1 reached L2 before L2's first
\* firing read it. (The segment posted carries the specStats of the
\* processChunk call that posts it.)
C19_FirstSegmentDrafted ==
    [][FirstL2SegmentPosted
          => \E i \in 1 .. Len(inflight) :
                /\ inflight[i].kind = "chunk"
                /\ inflight[i].pc = "decode"
                /\ inflight' = RemoveAt(inflight, i)
                /\ inflight[i].specStats.present
                /\ inflight[i].specStats.totalCount > 0]_vars

\* C21 as stated: with L1 fed in pushes of 0.1 s, once a firing has completed
\* (and trimmed the buffer) the buffer length stays within
\* [1.0 s, 1.1 s + push_size].
C21_Original ==
    lastTrim # NoTrim
       => /\ BufLen(audioBuffer) >= sampleRate
          /\ BufLen(audioBuffer) <= sampleRate + sampleRate \div 10 + pushSize

\* A processContinuous call returns from its last await in this step.
ContinuousCompletes ==
    /\ Len(inflight') < Len(inflight)
    /\ ctl' = ctl

\* C21 amended: with L1 fed in pushes of 0.1 s, the buffer never drops below
\* 1.0 s once it has reached it (so never after the first firing has
\* started), and it is exactly 1.0 s long whenever a firing completes without
\* an exception. A push makes it longer by the push, whether or not an
\* inference is running, and no other step changes it: a firing that ends by
\* an exception leaves it as long as it was.
C21_BufferAtLeastContext ==
    [][/\ BufLen(audioBuffer) >= contextSamples
            => BufLen(audioBuffer') >= contextSamples
       /\ ContinuousCompletes => BufLen(audioBuffer') = contextSamples
       /\ pushed' # pushed
            => BufLen(audioBuffer') = BufLen(audioBuffer) + pushSize
       /\ (pushed' = pushed /\ ~ContinuousCompletes)
            => audioBuffer' = audioBuffer]_vars

\* A firing has completed and trimmed the buffer to 1.0 s while three pushes
\* or more had arrived since it was started; a firing has ended by an
\* exception as well.
C21_Witness ==
    /\ lastTrim # NoTrim
    /\ inflight = <<>>
    /\ BufLen(audioBuffer) = contextSamples
    /\ audioBuffer.lo >= 3 * pushSize
    /\ ctl > 0

\* The call of the given kind returns from its last await in this step,
\* without having thrown.
Completes(kind) ==
    \E i \in 1 .. Len(inflight) :
        /\ inflight[i].kind = kind
        /\ inflight[i].pc = "decode"
        /\ inflight' = RemoveAt(inflight, i)
        /\ ctl' = ctl

\* C22 as stated: every model invocation results in exactly one emitted
\* message, a partial for a continuous firing and a segment for a chunk
\* firing.
C22_Original ==
    [][/\ Completes("continuous")
            => /\ Len(posted') = Len(posted) + 1
               /\ posted'[Len(posted')].type = "partial"
       /\ Completes("chunk")
            => /\ Len(posted') = Len(posted) + 1
               /\ posted'[Len(posted')].type = "segment"]_vars

\* C22 amended: a chunk firing that completes emits exactly one segment with
\* the decoded text, also when that text is empty; a continuous firing that
\* completes emits exactly one partial with the decoded text when that text
\* is not empty, and nothing when it is empty; a step that ends a firing by
\* an exception emits nothing.
C22_OneOutputPerFiring ==
    [][/\ Completes("chunk")
            => /\ Len(posted') = Len(posted) + 1
               /\ SubSeq(posted', 1, Len(posted)) = posted
               /\ posted'[Len(posted')].type = "segment"
               /\ posted'[Len(posted')].text = lastText'
       /\ (Completes("continuous") /\ lastText' # "")
            => /\ Len(posted') = Len(posted) + 1
               /\ SubSeq(posted', 1, Len(posted)) = posted
               /\ posted'[Len(posted')].type = "partial"
               /\ posted'[Len(posted')].text = lastText'
       /\ (Completes("continuous") /\ lastText' = "")
            => posted' = posted
       /\ (Len(inflight') < Len(inflight) /\ ctl' # ctl) => posted' = posted]_vars

\* The continuous tier has completed a firing that decoded an empty text and
\* posted nothing, after a firing whose text it posted as a partial.
C22_Witness ==
    /\ config.mode = "continuous"
    /\ inflight = <<>>
    /\ lastText = ""
    /\ Len(posted) = 1
    /\ posted[1].type = "partial"
    /\ posted[1].text # ""

\* The segments of a set that no overlapping segment of a higher level of the
\* set dominates.
Undominated(S) ==
    { s \in S : ~\E t \in S : t.level > s.level /\ overlap(t, s) > OverlapThreshold }

\* The segments of a set with distinct starts, as a sequence by start.
RECURSIVE ByStart(_)
ByStart(S) ==
    IF S = {} THEN <<>>
    ELSE LET first == CHOOSE s \in S : \A t \in S : s.start <= t.start
         IN  <<first>> \o ByStart(S \ {first})

\* C23: the merge engine is order-agnostic across tiers. Once all the
\* segments of a set emitted by the chunk tiers have been inserted, the
\* Transcript is the same for every arrival order that keeps each tier's own
\* order: it is the undominated segments of the set, by start.
C23_OrderAgnostic ==
    todo = {} => segments = ByStart(Undominated(emitted))

\* Segments of the three chunk tiers have all arrived, the last of them an L2
\* segment that arrived after the L4 segment covering it.
C23_Witness ==
    /\ todo = {}
    /\ \A level \in ChunkLevels : \E s \in emitted : s.level = level
    /\ lastSeg.level = 2
    /\ \E i \in 1 .. Len(segments) :
          segments[i].level = 4 /\ overlap(segments[i], lastSeg) > OverlapThreshold

\* This step inserts the segment that the step before it inserted.
InsertedAgain ==
    /\ lastOp = "merge"
    /\ lastOp' = "merge"
    /\ ops' = ops + 1
    /\ lastSeg' = lastSeg

\* C24: mergeSegment is idempotent. Inserting a segment n a second time, right
\* after it was inserted, leaves the Transcript as the first insertion made
\* it.
C24_Idempotent ==
    [][InsertedAgain => segments' = segments]_vars

\* A segment that the Transcript held has been inserted again, and the
\* Transcript, separator included, is what it was.
C24_Witness ==
    /\ lastOp = "merge"
    /\ prevSegments = segments
    /\ \E i \in 1 .. Len(segments) : segments[i] = lastSeg
    /\ \E i \in 1 .. Len(segments) : segments[i].isSeparator

\* The tiers enabled at init: those with a stored configuration.
EnabledTiers == { level \in Levels : workerConfigs[level] # NoConfig }

\* C25: init creates exactly one worker per enabled tier, and isInitialized
\* does not become true (and "Multi-Agent Swarm Ready" is not reported) before
\* every worker created has loaded its model and signalled Ready.
C25_ReadyBeforeInitialized ==
    [][(~isInitialized /\ isInitialized')
          => /\ Len(workers') = Cardinality(EnabledTiers)
             /\ LevelsOf(workers', pool') = EnabledTiers
             /\ \A k \in 1 .. Len(workers') : pool'[workers'[k]].phase = "ready"]_vars

\* The restarts of a tier reported so far.
Restarts(level) ==
    Cardinality({ k \in 1 .. Len(statuses) :
                     statuses[k] = [text |-> "restarted", n |-> level] })

\* C26: a fatal error of a tier worker triggers exactly one automatic
\* restart; after a second fatal error of the same tier there is no second
\* restart of that tier.
C26_OneRestart ==
    \A level \in Levels : Restarts(level) <= 1

\* restartWorker runs in this step for the given level.
Restarted(level) ==
    /\ errors' = errors + 1
    /\ Len(pool') = Len(pool) + 1
    /\ pool'[Len(pool')].level = level

\* The worker init() created for a level.
Original(level) ==
    CHOOSE k \in 1 .. Len(pool) :
        /\ pool[k].level = level
        /\ \A j \in 1 .. k - 1 : pool[j].level # level

\* C27: a restarted tier's replacement worker is sent exactly the configure
\* and init messages (tier config, language, backend, model, quantization)
\* that the tier's worker was sent at start, and the restart leaves the
\* workers of every other tier, the Transcript, the partial and the sink's
\* snapshot as they were.
C27_RestartSameConfig ==
    [][\A level \in Levels :
          Restarted(level)
             => /\ pool'[Len(pool')].inbox = pool[Original(level)].inbox
                /\ pool'[Len(pool')].inbox[1].config = TierConfig(level)
                /\ pool'[Len(pool')].read = 0
                /\ \A j \in 1 .. Len(pool) :
                      pool[j].level # level => pool'[j] = pool[j]
                /\ SelectSeq(workers', LAMBDA w : pool'[w].level # level)
                      = SelectSeq(workers, LAMBDA w : pool[w].level # level)
                /\ <<segments', currentPartial', sinkSegments', sent'>>
                      = <<segments, currentPartial, sinkSegments, sent>>]_vars

\* A tier started with quantization q8 has been restarted, its replacement
\* has handled its init message, and the worker of another tier is loaded.
C27_Witness ==
    /\ errors >= 1
    /\ \E i \in 1 .. Len(pool), j \in 1 .. Len(pool) :
          /\ i > Cardinality(EnabledTiers)
          /\ pool[i].phase = "ready"
          /\ pool[i].args.quant = "q8"
          /\ pool[j].level # pool[i].level
          /\ pool[j].phase = "ready"

\* model.generate of a firing without a verified prefix throws in this step.
GenerationThrows ==
    \E i \in 1 .. Len(inflight) :
        /\ inflight[i].pc = "generate"
        /\ inflight' = RemoveAt(inflight, i)
        /\ ctl' = ctl + 1

\* C28: when normal generation throws inside a firing, the worker emits an
\* error status message for its tier and returns to Idle (isProcessing =
\* false), ready to fire again.
C28_ErrorStatus ==
    [][GenerationThrows
          => /\ isProcessing' = FALSE
             /\ Len(posted') = Len(posted) + 1
             /\ posted'[Len(posted')].type = "status"]_vars

\* A processChunk call ends by an exception in this step.
ChunkThrows ==
    \E i \in 1 .. Len(inflight) :
        /\ inflight[i].kind = "chunk"
        /\ inflight' = RemoveAt(inflight, i)
        /\ ctl' = ctl + 1

\* C29: an inference error in a chunk tier changes nothing observable. No
\* segment is emitted for the firing, the tier's audio buffer and
\* processedSamples are unchanged, and so are the Transcript and the sink's
\* snapshot.
C29_ErrorChangesNothing ==
    [][ChunkThrows
          => /\ posted' = posted
             /\ audioBuffer' = audioBuffer
             /\ processedSamples' = processedSamples
             /\ segments' = segments
             /\ sinkSegments' = sinkSegments]_vars

\* A chunk firing has ended by an exception: the worker is idle again with a
\* checkProcessing scheduled, nothing posted, the whole chunk still in the
\* buffer and processedSamples at 0.
C29_Witness ==
    /\ config.mode = "chunk"
    /\ ctl >= 1
    /\ ~isProcessing
    /\ pendingTimers >= 1
    /\ posted = <<>>
    /\ processedSamples = 0
    /\ BufLen(audioBuffer) >= config.chunkSize * sampleRate

\* C30: after every change to the Transcript or to the current partial
\* (insertion of a segment, removal of dominated segments, a new partial, a
\* commit) the sink receives one full_transcript event carrying the current
\* Transcript and the current partial, and the sink's last snapshot always
\* equals the Transcriber's current Transcript and partial.
C30_SinkSnapshot ==
    [][/\ (segments' # segments \/ currentPartial' # currentPartial)
            => lastEmits' = 1
       /\ sinkSegments' = segments'
       /\ sinkPartial' = currentPartial']_vars

\* A segment has just replaced a weaker one of the Transcript while a partial
\* is being shown, and the sink has been given both.
C30_Witness ==
    /\ lastOp = "merge"
    /\ lastEmits = 1
    /\ \E i \in 1 .. Len(prevSegments) :
          /\ prevSegments[i].level < lastSeg.level
          /\ \A j \in 1 .. Len(segments) : segments[j] # prevSegments[i]
    /\ currentPartial # ""
    /\ sinkPartial = currentPartial
    /\ sinkSegments = segments

-----------------------------------------------------------------------------
(* Model loading *)

\* What initModel posts: its status texts and "load_progress"; none of them
\* reports a failure.
LoadStatusTexts ==
    {"Loading model...", "load_progress", "Validating quantization...",
     "Ready (WASM fallback)"}
    \cup { ReadyText(q) : q \in QuantInputs }
    \cup { ValidatedText(q) : q \in QuantInputs \ {"null", "fp32"} }
    \cup { UncertainText(q) : q \in QuantInputs \ {"null"} }

\* The worker has attempted an inference.
InferenceAttempted == inflight # <<>> \/ isProcessing \/ posted # <<>>

\* What holds of model loading: from_pretrained is called once on the
\* backend of the init message and, after a failure on a backend other than
\* wasm, once more on wasm; checkProcessing's three components are all set
\* exactly when initModel has returned; a worker whose loading failed never
\* attempts an inference.
LoadRetriesOnceNeverServes ==
    /\ phase \in {"loading", "ready", "failed"} /\ Len(loads) = 1
           => loads = <<backend>>
    /\ Len(loads) > 1 => loads = <<backend, "wasm">> /\ backend # "wasm"
    /\ phase = "fallback" => Len(loads) = 2
    /\ phase = "failed" /\ backend # "wasm" => Len(loads) = 2
    /\ (components = AllComponents) <=> (phase = "ready")
    /\ phase # "ready" => ~InferenceAttempted

\* C31: if the preferred backend fails to initialise the worker retries
\* exactly once on wasm; if that fails too, or wasm was the preferred backend,
\* the worker emits a fatal status message and never attempts an inference.
C31_LoadFallback ==
    /\ LoadRetriesOnceNeverServes
    /\ phase = "failed"
           => \E k \in 1 .. Len(loadStatus) : loadStatus[k] \notin LoadStatusTexts

\* Both attempts have failed with audio buffered for a whole chunk.
LoadFailedWithBacklog ==
    /\ phase = "failed"
    /\ Len(loads) = 2
    /\ config.mode = "chunk"
    /\ BufLen(audioBuffer) >= chunkSamples(config.level)

-----------------------------------------------------------------------------
(* Properties of the ONNX tier worker *)

\* C32: in the ONNX tier worker at most one transcribe call is in progress
\* at any time, also when a commit is handled while a transcription is
\* running and more audio arrives before it finishes.
C32_OneTranscribe == Len(transcribing) <= 1

\* The segments the ONNX worker has posted, as positions in onnxPosted.
OnnxSegments == { k \in 1 .. Len(onnxPosted) : onnxPosted[k].type = "segment" }

\* C33: the start of the segments the ONNX chunk tier posts is strictly
\* increasing over the whole session, across commits.
C33_StartIncreasing ==
    \A i, j \in OnnxSegments :
        i < j => onnxPosted[i].start < onnxPosted[j].start

-----------------------------------------------------------------------------
(* Rejected insertions *)

\* The last operation was a mergeSegment(n) that did not insert n: a segment
\* of higher level overlapped it by more than 0.1 s.
Rejected ==
    /\ lastOp = "merge"
    /\ coveredByBetter(prevSegments, lastSeg)

\* C34: a rejected insertion is a no-op. If mergeSegment(n) does not insert n
\* because a higher-level segment overlaps it by more than 0.1 s, the
\* Transcript after the call is the Transcript before it.
C34_RejectedNoOp == Rejected => segments = prevSegments

\* An insertion was rejected while the Transcript also held a segment of a
\* level not above the rejected one's, and a separator.
C34_Witness ==
    /\ Rejected
    /\ \E i \in 1 .. Len(prevSegments) :
          /\ ~prevSegments[i].isSeparator
          /\ prevSegments[i].level <= lastSeg.level
    /\ \E i \in 1 .. Len(prevSegments) : prevSegments[i].isSeparator

-----------------------------------------------------------------------------
(* The time origin of the chunk tiers *)

\* C35: all chunk tiers share one time origin. Whatever pushes and commits
\* came before, a segment's [start, end) is the position in the pushed audio
\* stream of the samples it was transcribed from.
C35_SharedTimeOrigin ==
    [][\A i \in 1 .. Len(inflight) :
          (/\ inflight[i].kind = "chunk"
           /\ inflight[i].pc = "decode"
           /\ inflight' = RemoveAt(inflight, i)
           /\ ctl' = ctl)
          => /\ posted'[Len(posted')].start = inflight[i].bufferToProcess.lo
             /\ posted'[Len(posted')].end = inflight[i].bufferToProcess.hi]_vars

-----------------------------------------------------------------------------
(* Commits while the cascade runs *)

\* The state of the level-2 worker of the cascade.
L2Worker == IF config.level = 2 THEN WorkerState ELSE peer

\* A commit has been broadcast and no audio has been pushed since: whatever a
\* tier still generates, it generates from audio pushed before the commit.
NoAudioSinceCommit ==
    /\ Len(commitFed) > 0
    /\ fed = commitFed[Len(commitFed)]

\* C36: once a tier has processed a commit, its draft buffer never again
\* holds tokens an upstream tier generated from audio pushed before that
\* commit, and the Transcriber's current partial stays empty after a commit
\* until a partial from audio pushed after it arrives.
C36_NoStaleAfterCommit ==
    NoAudioSinceCommit
        => /\ currentPartial = ""
           /\ L2Worker.lastCleared.n = Len(commitFed)
                 => L2Worker.currentDraftTokens = <<>>

\* The part of C36 about the draft buffer alone.
NoStaleDraftAfterCommit ==
    (NoAudioSinceCommit /\ L2Worker.lastCleared.n = Len(commitFed))
        => L2Worker.currentDraftTokens = <<>>

\* The part of C36 about the current partial alone.
NoStalePartialAfterCommit == NoAudioSinceCommit => currentPartial = ""

-----------------------------------------------------------------------------
(* Draining the backlog *)

\* A chunk-tier worker is Ready, not processing, and holds a whole chunk.
Backlog ==
    /\ phase = "ready"
    /\ ~isProcessing
    /\ config.mode = "chunk"
    /\ BufLen(audioBuffer) >= config.chunkSize * sampleRate

\* C37: the backlog is always drained. Whenever a chunk-tier worker is Ready,
\* not processing and holds at least a chunk of samples, it eventually posts
\* a segment for the leading chunk, without any further audio message.
C37_BacklogDrained ==
    \A n \in 0 .. MaxChunks :
        (Backlog /\ Len(SegmentsPosted) = n) ~> (Len(SegmentsPosted) > n)

\* The backlog an inference leaves behind is drained: its finally block
\* schedules checkProcessing.
BacklogAfterInferenceDrained ==
    \A n \in 0 .. MaxChunks :
        (Backlog /\ pendingTimers > 0 /\ Len(SegmentsPosted) = n)
            ~> (Len(SegmentsPosted) > n)

\* A backlog is left behind by an inference.
BacklogAfterInference == Backlog /\ pendingTimers > 0

-----------------------------------------------------------------------------
(* The worker list *)

\* The positions of this.workers whose worker is live and of the given level.
LiveAt(level) ==
    { k \in 1 .. Len(workers) :
         pool[workers[k]].level = level /\ pool[workers[k]].phase # "terminated" }

\* this.workers holds at most one live worker per level.
OneWorkerPerLevel == \A level \in Levels : Cardinality(LiveAt(level)) <= 1

\* this.workers holds workers of enabled levels only.
OnlyEnabledLevels == \A level \in Levels \ enabledLayers : LiveAt(level) = {}

\* this.workers is empty from stop to the next init call.
NoWorkerAfterStop == stopped => workers = <<>>

\* C38: after any sequence of init, worker-error/restart and stop operations
\* (an init issued while a previous init has not completed included) the
\* worker list holds at most one live worker per tier level, only for enabled
\* levels, and holds no worker after stop until the next init. The states
\* looked at are those in which no init call is at its await.
C38_WorkerList ==
    awaiting = <<>>
        => /\ OneWorkerPerLevel
           /\ OnlyEnabledLevels
           /\ NoWorkerAfterStop

\* The parts of C38 that fail, each once every init call has completed.
OnlyEnabledLevelsAtRest == awaiting = <<>> => OnlyEnabledLevels
NoWorkerAfterStopAtRest == awaiting = <<>> => NoWorkerAfterStop
-----------------------------------------------------------------------------
(* C39: the timing statistics *)

RECURSIVE Sum(_)
Sum(seq) == IF seq = <<>> THEN 0 ELSE Head(seq) + Sum(Tail(seq))

\* The statistics kept for a level agree with the outputs received from it.
TimingConsistent(level) ==
    LET stats == timingStats[level]
        spec == stats.specStats
    IN  /\ stats.count = Len(timed[level])
        /\ stats.totalTime = Sum(timed[level])
        /\ stats.averageTime.num * Max(1, stats.count)
              = stats.totalTime * stats.averageTime.den
        /\ stats.lastTime = IF timed[level] = <<>> THEN 0
                            ELSE timed[level][Len(timed[level])]
        /\ spec.present =>
              /\ spec.totalHits <= spec.totalDrafts
              /\ spec.hitRate.num * Max(1, spec.totalDrafts)
                    = spec.totalHits * spec.hitRate.den
              /\ 0 <= spec.hitRate.num
              /\ spec.hitRate.num <= spec.hitRate.den

\* C39: after every worker message, for every tier: count is the number of
\* outputs with a non-zero inferenceTime received from the tier since the last
\* commit or stop, averageTime = totalTime / count, lastTime is the latest of
\* these times, and the specStats, when there are some, have totalHits <=
\* totalDrafts and hitRate = totalHits / totalDrafts (0 when totalDrafts = 0),
\* within [0, 1].
C39_TimingStats ==
    \A level \in Tiers :
        IF level \in DOMAIN timingStats
        THEN TimingConsistent(level)
        ELSE timed[level] = <<>>

\* The part of C39 that holds: the entries that exist are consistent.
TimingConsistentWhereKept == \A level \in DOMAIN timingStats : TimingConsistent(level)

\* An entry that has counted outputs and summed specStats.
TimingCounted ==
    \E level \in DOMAIN timingStats :
        /\ timingStats[level].count = 2
        /\ timingStats[level].specStats.present
        /\ timingStats[level].specStats.totalDrafts > 0
        /\ timingStats[level].specStats.totalHits > 0

-----------------------------------------------------------------------------
(* C40: the streaming worker's message queue *)

\* The ids of a sequence of message events.
Ids(events) == [k \in 1 .. Len(events) |-> events[k].id]

\* The ids a .. b in order.
Range(a, b) == [k \in 1 .. (b - a + 1) |-> a + k - 1]

\* One handler at a time, begun in arrival order; a message is queued only
\* while another is handled; every message delivered is handled, being
\* handled or queued, once, the queue in arrival order.
StreamInOrder ==
    /\ Len(running) <= 1
    /\ isHandlingMessage <=> running # <<>>
    /\ messageQueue # <<>> => isHandlingMessage
    /\ started = Range(1, Len(started))
    /\ finished \o Ids(running) = started
    /\ Ids(messageQueue) = Range(Len(started) + 1, arrivals)

Queued(id) == \E k \in 1 .. Len(messageQueue) : messageQueue[k].id = id
Started(id) == \E k \in 1 .. Len(started) : started[k] = id

\* C40: the streaming worker handles its messages one at a time and in
\* arrival order; a message that arrives while another is handled is queued;
\* no queued message is lost or handled twice; every queued message is
\* handled in the end, the handlers before it completing.
C40_MessageQueue ==
    /\ []StreamInOrder
    /\ \A id \in 1 .. MaxMessages : Queued(id) ~> Started(id)

\* Two messages were queued while another was handled, and all three have
\* been handled.
C40_Witness ==
    /\ wasQueued = 2
    /\ Len(messageQueue) = 0
    /\ finished = <<1, 2, 3>>

====
